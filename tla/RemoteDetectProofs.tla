-------------------------- MODULE RemoteDetectProofs --------------------------
(***************************************************************************)
(* Theorems about RemoteDetect, for every cluster and every option: types, *)
(* control and directory; names, jobs and files; and the refinement of     *)
(* PartitionDetection.                                                     *)
(***************************************************************************)
EXTENDS RemoteDetect, TLAPS, FiniteSetTheorems

-----------------------------------------------------------------------------
(* Type correctness. *)

\* The option sets the code builds are sets of options.
LEMMA OptionSets ==
    /\ BaseOptions \subseteq Options
    /\ \A t : Constraint(t) \subseteq Options
BY DEF BaseOptions, Constraint, Options

\* Changing the state of one job changes nothing else.
LEMMA SetJobState ==
    ASSUME NEW jobs \in [NodeTypes -> [Attempts -> Jobs]],
           NEW t \in NodeTypes, NEW a \in Attempts, NEW st \in JobStates
    PROVE  /\ SetState(jobs, t, a, st) \in [NodeTypes -> [Attempts -> Jobs]]
           /\ SetState(jobs, t, a, st)[t][a].st = st
           /\ SetState(jobs, t, a, st)[t][a].type = jobs[t][a].type
           /\ SetState(jobs, t, a, st)[t][a].opts = jobs[t][a].opts
           /\ \A u \in NodeTypes, b \in Attempts :
                    (u # t \/ b # a) => SetState(jobs, t, a, st)[u][b] = jobs[u][b]
<1> DEFINE rec == [jobs[t][a] EXCEPT !.st = st]
<1>1. \A r \in Jobs : [r EXCEPT !.st = st] \in Jobs
  BY DEF Jobs
<1>2. jobs[t][a] \in Jobs
  OBVIOUS
<1>3. rec \in Jobs
  BY <1>1, <1>2
<1>4. rec.st = st /\ rec.type = jobs[t][a].type /\ rec.opts = jobs[t][a].opts
  BY <1>2 DEF Jobs
<1>5. SetState(jobs, t, a, st) = [jobs EXCEPT ![t] = [jobs[t] EXCEPT ![a] = rec]]
  BY DEF SetState
<1> HIDE DEF rec
<1> QED  BY <1>3, <1>4, <1>5

\* Writing a file keeps the directory well formed.
LEMMA SubmitType ==
    ASSUME TypeOK, NEW t \in NodeTypes, NEW a \in Attempts, NEW nm \in Nat,
           NEW opts \in SUBSET Options, NEW jobs \in [NodeTypes -> [Attempts -> Jobs]],
           Submit(t, a, nm, opts, jobs)
    PROVE  /\ scripts' \subseteq Scripts
           /\ job' \in [NodeTypes -> [Attempts -> Jobs]]
           /\ attempt' \in [NodeTypes -> 0..2]
           /\ pc' \in [NodeTypes -> {"ready", "reading", "waiting", "done", "raised"}]
           /\ cwd' \in {"wdir", "tmp"}
<1>1. scripts' \subseteq Scripts
  BY DEF TypeOK, Submit, Overwrite, Scripts
<1>2. job' \in [NodeTypes -> [Attempts -> Jobs]]
  <2>1. "spawned" \in JobStates /\ job' = SetState(jobs, t, a, "spawned")
    BY DEF Submit, JobStates
  <2> QED  BY <2>1, SetJobState
<1>3. attempt' \in [NodeTypes -> 0..2]
  BY DEF TypeOK, Submit, Attempts
<1>4. pc' \in [NodeTypes -> {"ready", "reading", "waiting", "done", "raised"}]
  BY DEF TypeOK, Submit
<1>5. cwd' \in {"wdir", "tmp"}
  BY DEF Submit
<1> QED  BY <1>1, <1>2, <1>3, <1>4, <1>5

\* Appending a partition keeps the list well formed, and ends the coroutine.
LEMMA AppendPartitionType ==
    ASSUME TypeOK, NEW t \in NodeTypes, NEW nm \in Nat,
           NEW opts \in SUBSET Options, NEW from \in SUBSET Nodes,
           AppendPartition(t, nm, opts, from)
    PROVE  /\ partitions' \in Seq(Partitions)
           /\ pc' \in [NodeTypes -> {"ready", "reading", "waiting", "done", "raised"}]
<1>1. [type |-> t, name |-> nm, access |-> opts, from |-> from] \in Partitions
  BY DEF Partitions
<1>2. partitions' \in Seq(Partitions)
  BY <1>1 DEF TypeOK, AppendPartition
<1> QED  BY <1>2 DEF TypeOK, AppendPartition

\* The end of a coroutine keeps everything it changes well formed.
LEMMA ConcludeType ==
    ASSUME TypeOK, NEW t \in NodeTypes, NEW opts \in SUBSET Options,
           NEW executed \in BOOLEAN, NEW cancelled \in BOOLEAN,
           attempt[t] \in Attempts,
           Conclude(t, opts, executed, cancelled)
    PROVE  /\ access' \in [NodeTypes -> SUBSET Options]
           /\ jobPoll' \subseteq NodeTypes \X Attempts
           /\ partitions' \in Seq(Partitions)
           /\ pc' \in [NodeTypes -> {"ready", "reading", "waiting", "done", "raised"}]
           /\ cwd' \in {"wdir", "tmp"}
           /\ UNCHANGED <<attempt, scripts>>
<1> DEFINE final == IF executed \/ cancelled THEN opts ELSE opts \cup Constraint(t)
           read  == IF executed /\ Wait THEN {f \in outputs : f.name = name[t]} ELSE {}
<1>1. final \in SUBSET Options
  BY OptionSets
<1>2. access' \in [NodeTypes -> SUBSET Options]
  BY <1>1 DEF TypeOK, Conclude
<1>3. jobPoll' \subseteq NodeTypes \X Attempts
  BY DEF TypeOK, Conclude
<1>4. /\ partitions' \in Seq(Partitions)
      /\ pc' \in [NodeTypes -> {"ready", "reading", "waiting", "done", "raised"}]
  <2>1. CASE Raise(t) /\ UNCHANGED partitions
    BY <2>1 DEF TypeOK, Raise
  <2>2. CASE AppendPartition(t, name[t], final, {f.node : f \in read})
    <3>1. {f.node : f \in read} \in SUBSET Nodes
      BY DEF TypeOK, Outputs
    <3>2. name[t] \in Nat
      BY DEF TypeOK
    <3> HIDE DEF final, read
    <3> QED  BY <2>2, <3>1, <3>2, <1>1, AppendPartitionType
  <2> QED  BY <2>1, <2>2 DEF Conclude
<1> QED  BY <1>2, <1>3, <1>4 DEF Conclude, LeaveTmpDir

\* scancel changes the state of one job at most.
LEMMA ScancelJobType ==
    ASSUME TypeOK, NEW t \in NodeTypes, attempt[t] \in Attempts
    PROVE  ScancelJob(t) \in [NodeTypes -> [Attempts -> Jobs]]
<1>1. job \in [NodeTypes -> [Attempts -> Jobs]] /\ "cancelling" \in JobStates
  BY DEF TypeOK, JobStates
<1>2. SetState(job, t, attempt[t], "cancelling") \in [NodeTypes -> [Attempts -> Jobs]]
  BY <1>1, SetJobState
<1> QED  BY <1>1, <1>2 DEF ScancelJob

\* What follows an attempt keeps everything it changes well formed.
LEMMA AfterAttemptType ==
    ASSUME TypeOK, NEW t \in NodeTypes, attempt[t] \in Attempts,
           NEW executed \in BOOLEAN, NEW cancelled \in BOOLEAN,
           NEW jobs \in [NodeTypes -> [Attempts -> Jobs]],
           AfterAttempt(t, executed, cancelled, jobs), UNCHANGED idSeen
    PROVE  TypeOK'
<1>1. CASE MayRetry(t, executed, cancelled) /\ Submit(t, attempt[t] + 1, name[t], {"part"}, jobs)
                /\ UNCHANGED <<access, partitions, jobPoll>>
  <2>1. attempt[t] + 1 \in Attempts
    BY <1>1 DEF MayRetry, Attempts
  <2>2. name[t] \in Nat /\ {"part"} \in SUBSET Options
    BY DEF TypeOK, Options
  <2>3. /\ scripts' \subseteq Scripts
        /\ job' \in [NodeTypes -> [Attempts -> Jobs]]
        /\ attempt' \in [NodeTypes -> 0..2]
        /\ pc' \in [NodeTypes -> {"ready", "reading", "waiting", "done", "raised"}]
        /\ cwd' \in {"wdir", "tmp"}
    BY <1>1, <2>1, <2>2, SubmitType
  <2> QED  BY <1>1, <2>3 DEF TypeOK, AfterAttempt
<1>2. CASE Conclude(t, access[t] \cup Learned(t, executed, cancelled), executed, cancelled)
                /\ job' = jobs
  <2>1. access[t] \cup Learned(t, executed, cancelled) \in SUBSET Options
    BY OptionSets DEF TypeOK, Learned, Options
  <2>2. /\ access' \in [NodeTypes -> SUBSET Options]
        /\ jobPoll' \subseteq NodeTypes \X Attempts
        /\ partitions' \in Seq(Partitions)
        /\ pc' \in [NodeTypes -> {"ready", "reading", "waiting", "done", "raised"}]
        /\ cwd' \in {"wdir", "tmp"}
        /\ UNCHANGED <<attempt, scripts>>
    BY <1>2, <2>1, ConcludeType
  <2> QED  BY <1>2, <2>2 DEF TypeOK, AfterAttempt
<1> QED  BY <1>1, <1>2 DEF AfterAttempt

\* What _prepare_job and _submit_job do to the jobs.
LEMMA SubmittedJobs ==
    ASSUME NEW t \in NodeTypes, NEW a \in Attempts, NEW nm, NEW opts,
           NEW jobs \in [NodeTypes -> [Attempts -> Jobs]],
           Submit(t, a, nm, opts, jobs)
    PROVE  /\ job'[t][a].st = "spawned"
           /\ \A u \in NodeTypes, b \in Attempts : (u # t \/ b # a) => job'[u][b] = jobs[u][b]
<1> DEFINE new == SetState(jobs, t, a, "spawned")
<1>1. "spawned" \in JobStates /\ job' = new
  BY DEF JobStates, Submit
<1>2. new[t][a].st = "spawned"
  BY <1>1, SetJobState
<1>3. \A u \in NodeTypes, b \in Attempts : (u # t \/ b # a) => new[u][b] = jobs[u][b]
  BY <1>1, SetJobState
<1> HIDE DEF new
<1> QED  BY <1>1, <1>2, <1>3

\* The job ran, and left its output file.
Ran(j) == j.st \in {"completed", "failed"}

-----------------------------------------------------------------------------
(* The steps of a resumed coroutine, once for all the proofs below. *)

\* It goes on to wait for its process.
Waits(t) ==
    /\ pc[t] = "reading" /\ job[t][attempt[t]].st # "spawned"
    /\ pc' = [pc EXCEPT ![t] = "waiting"]
    /\ idSeen' \in [NodeTypes -> BOOLEAN]
    /\ idSeen'[t] \/ Banner
    /\ \A u \in NodeTypes : u # t => idSeen'[u] = idSeen[u]
    /\ UNCHANGED <<attempt, name, access, files, job, partitions, shared, main>>

\* scancel raises, or has no job id.
Raises(t) ==
    /\ Suspended(t) /\ Raise(t) /\ cwd' = "wdir"
    /\ (pc[t] = "waiting" /\ ~idSeen[t]) \/ CommandsFail
    /\ UNCHANGED <<attempt, name, access, idSeen, files, job, partitions, pn, keepTmp,
                   tmpDir, jobPoll, main>>

\* Its attempt is over.
AttemptEnds(t, executed, cancelled, jobs) ==
    /\ Suspended(t)
    /\ jobs = job \/ jobs = ScancelJob(t)
    /\ executed => ~cancelled /\ jobs = job
    /\ executed /\ Wait => job[t][attempt[t]].st = "completed"
    /\ Follows => /\ jobs[t][attempt[t]].st \notin {"spawned", "pending"}
                  /\ ~cancelled => ~Live(jobs[t][attempt[t]])
    /\ AfterAttempt(t, executed, cancelled, jobs)
    /\ UNCHANGED idSeen

\* A resumed coroutine takes one of these three steps, while the loop runs
\* and every coroutine has started.
LEMMA ResumeCases ==
    ASSUME TypeOK, ControlInv, NEW t \in NodeTypes, Resume(t)
    PROVE  /\ LoopRuns /\ AllStarted
           /\ \/ Waits(t)
              \/ Raises(t)
              \/ \E executed, cancelled \in BOOLEAN :
                    \E jobs \in [NodeTypes -> [Attempts -> Jobs]] :
                        AttemptEnds(t, executed, cancelled, jobs)
<1> DEFINE j == job[t][attempt[t]]
           JobFns == [NodeTypes -> [Attempts -> Jobs]]
<1>0. job \in JobFns /\ ScancelJob(t) \in JobFns
  BY ScancelJobType DEF TypeOK, ControlInv, SuspendInv, Resume, ReadLine, Communicate, Timeout, Suspended
<1>1. ASSUME ReadLine(t)
      PROVE  Waits(t) \/ \E executed, cancelled \in BOOLEAN : \E jobs \in JobFns :
                            AttemptEnds(t, executed, cancelled, jobs)
  <2>1. CASE (j.st = "rejected" \/ t \in ErrorLine) /\ AfterAttempt(t, FALSE, FALSE, job) /\ UNCHANGED idSeen
    <3>1. AttemptEnds(t, FALSE, FALSE, job)
      BY <1>1, <2>1 DEF AttemptEnds, ReadLine, Suspended, Live, Follows
    <3> QED  BY <3>1, <1>0
  <2>2. CASE /\ j.st # "spawned"
             /\ \E seen \in IF Banner THEN BOOLEAN ELSE {TRUE} :
                    idSeen' = [idSeen EXCEPT ![t] = seen]
             /\ pc' = [pc EXCEPT ![t] = "waiting"]
             /\ UNCHANGED <<attempt, name, access, files, job, partitions, shared, main>>
    <3>1. PICK seen \in IF Banner THEN BOOLEAN ELSE {TRUE} : idSeen' = [idSeen EXCEPT ![t] = seen]
      BY <2>2
    <3>2. seen \in BOOLEAN /\ (seen \/ Banner)
      BY <3>1
    <3>3. /\ idSeen' \in [NodeTypes -> BOOLEAN]
          /\ idSeen'[t] \/ Banner
          /\ \A u \in NodeTypes : u # t => idSeen'[u] = idSeen[u]
      BY <3>1, <3>2 DEF TypeOK
    <3> QED  BY <1>1, <2>2, <3>3 DEF Waits, ReadLine
  <2> QED  BY <1>1, <2>1, <2>2 DEF ReadLine
<1>2. ASSUME Communicate(t)
      PROVE  \E executed, cancelled \in BOOLEAN : \E jobs \in JobFns :
                AttemptEnds(t, executed, cancelled, jobs)
  <2> DEFINE executed == ReturnsZero(j) /\ (Wait \/ ~idSeen[t])
  <2>1. executed \in BOOLEAN
    OBVIOUS
  <2>2. AttemptEnds(t, executed, FALSE, job)
    BY <1>2 DEF AttemptEnds, Communicate, Suspended, Live, Exited, ReturnsZero, Follows
  <2> QED  BY <2>1, <2>2, <1>0
<1>3. ASSUME Timeout(t)
      PROVE  Raises(t) \/ \E executed, cancelled \in BOOLEAN : \E jobs \in JobFns :
                            AttemptEnds(t, executed, cancelled, jobs)
  <2>1. CASE AfterAttempt(t, FALSE, TRUE, ScancelJob(t))
    <3>1. ScancelJob(t)[t][attempt[t]].st \notin {"spawned", "pending"}
      <4>1. job[t][attempt[t]].st # "spawned" /\ attempt[t] \in Attempts
        BY <1>3 DEF Timeout, ControlInv, SuspendInv, Suspended
      <4>2. job \in [NodeTypes -> [Attempts -> Jobs]] /\ "cancelling" \in JobStates
        BY DEF TypeOK, JobStates
      <4>3. SetState(job, t, attempt[t], "cancelling")[t][attempt[t]].st = "cancelling"
        BY <4>1, <4>2, SetJobState
      <4> QED  BY <4>1, <4>3 DEF ScancelJob
    <3>2. AttemptEnds(t, FALSE, TRUE, ScancelJob(t))
      BY <1>3, <2>1, <3>1 DEF AttemptEnds, Timeout, Suspended
    <3> QED  BY <3>2, <1>0
  <2>2. CASE /\ ~idSeen[t] \/ CommandsFail
             /\ Raise(t) /\ LeaveTmpDir
             /\ UNCHANGED <<attempt, name, access, files, job, partitions, pn, keepTmp,
                            tmpDir, jobPoll, main>>
    BY <1>3, <2>2 DEF Timeout, Raises, Suspended, LeaveTmpDir
  <2> QED  BY <1>3, <2>1, <2>2 DEF Timeout
<1> QED  BY <1>1, <1>2, <1>3 DEF Resume, ReadLine, Communicate, Timeout

\* The first stretch of a coroutine, once for all the proofs below: either it
\* ends at once, or its job is submitted, or chdir fails.
Begins(t, nm, opts, detect) ==
    /\ LoopRuns /\ pc[t] = "ready"
    /\ nm \in NameChoices
    /\ opts \in SUBSET Options /\ "part" \notin opts
    /\ pn' = pn + 1
    /\ name' = [name EXCEPT ![t] = nm]
    /\ keepTmp' = (keepTmp \/ detect)
    /\ access' \in [NodeTypes -> SUBSET Options]
    /\ \/ /\ \E more \in SUBSET Options : AppendPartition(t, nm, more, {})
          /\ UNCHANGED <<attempt, scripts, job, cwd>>
       \/ /\ detect
          /\ Submit(t, 1, nm, opts \cup Constraint(t), job)
          /\ UNCHANGED partitions
       \/ /\ RelativePrefix
          /\ Raise(t) /\ cwd' = "wdir"
          /\ UNCHANGED <<attempt, scripts, job, partitions>>
    /\ UNCHANGED <<idSeen, tmpDir, outputs, jobPoll, main>>

\* Begin is one of these.
LEMMA BeginCases ==
    ASSUME TypeOK, NEW t \in NodeTypes, Begin(t)
    PROVE  \E nm \in Nat, opts \in SUBSET Options, detect \in BOOLEAN :
                Begins(t, nm, opts, detect)
<1>1. PICK nm \in NameChoices, extra \in ExtraChoices, containers \in ContainerChoices :
        LET opts   == BaseOptions \cup extra
            detect == containers \/ DevicesFound(t)
            bare   == IF NeedsConstraint(t) THEN {"bare"} ELSE {}
        IN  /\ pn' = pn + 1
            /\ name' = [name EXCEPT ![t] = nm]
            /\ keepTmp' = (keepTmp \/ detect)
            /\ access' = [access EXCEPT ![t] = IF detect THEN opts ELSE opts \cup bare]
            /\ \/ /\ ~detect
                  /\ AppendPartition(t, nm, opts \cup bare, {})
                  /\ UNCHANGED <<attempt, scripts, job, cwd>>
               \/ /\ detect /\ TmpReachable
                  /\ Submit(t, 1, nm, opts \cup Constraint(t), job)
                  /\ UNCHANGED partitions
               \/ /\ detect /\ ~TmpReachable
                  /\ Raise(t)
                  /\ LeaveTmpDir
                  /\ UNCHANGED <<attempt, scripts, job, partitions>>
  BY DEF Begin
<1> DEFINE opts == BaseOptions \cup extra
           bare == IF NeedsConstraint(t) THEN {"bare"} ELSE {}
           detect == containers \/ DevicesFound(t)
<1>2. opts \in SUBSET Options /\ "part" \notin opts /\ opts \cup bare \in SUBSET Options
  BY DEF BaseOptions, ExtraChoices, Options
<1>3. nm \in Nat
  BY DetectAssumption DEF NameChoices, TypeOK
<1>4. detect \in BOOLEAN
  BY DetectAssumption DEF ContainerChoices, DevicesFound
<1>5. access' \in [NodeTypes -> SUBSET Options]
  BY <1>1, <1>2 DEF TypeOK
<1> HIDE DEF opts, bare, detect
<1>6. Begins(t, nm, opts, detect)
  BY <1>1, <1>2, <1>3, <1>4, <1>5 DEF Begins, Begin, TmpReachable, LeaveTmpDir, opts, bare, detect
<1> QED  BY <1>2, <1>3, <1>4, <1>6

-----------------------------------------------------------------------------
(* Type correctness is preserved. *)

LEMMA BeginType ==
    ASSUME TypeOK, NEW t \in NodeTypes, NEW nm \in Nat, NEW opts \in SUBSET Options,
           NEW detect \in BOOLEAN, Begins(t, nm, opts, detect)
    PROVE  TypeOK'
<1>1. /\ pn' \in Nat /\ name' \in [NodeTypes -> Nat] /\ keepTmp' \in BOOLEAN
      /\ access' \in [NodeTypes -> SUBSET Options]
  BY DEF TypeOK, Begins
<1>2. CASE /\ \E more \in SUBSET Options : AppendPartition(t, nm, more, {})
           /\ UNCHANGED <<attempt, scripts, job, cwd>>
  <2>1. /\ partitions' \in Seq(Partitions)
        /\ pc' \in [NodeTypes -> {"ready", "reading", "waiting", "done", "raised"}]
    BY <1>2, AppendPartitionType
  <2> QED  BY <1>1, <1>2, <2>1 DEF TypeOK, Begins
<1>3. CASE Submit(t, 1, nm, opts \cup Constraint(t), job) /\ UNCHANGED partitions
  <2>1. 1 \in Attempts /\ opts \cup Constraint(t) \in SUBSET Options
    BY OptionSets DEF Attempts
  <2>2. /\ scripts' \subseteq Scripts
        /\ job' \in [NodeTypes -> [Attempts -> Jobs]]
        /\ attempt' \in [NodeTypes -> 0..2]
        /\ pc' \in [NodeTypes -> {"ready", "reading", "waiting", "done", "raised"}]
        /\ cwd' \in {"wdir", "tmp"}
    BY <1>3, <2>1, SubmitType DEF TypeOK
  <2> QED  BY <1>1, <1>3, <2>2 DEF TypeOK, Begins
<1>4. CASE Raise(t) /\ cwd' = "wdir" /\ UNCHANGED <<attempt, scripts, job, partitions>>
  BY <1>1, <1>4 DEF TypeOK, Begins, Raise
<1> QED  BY <1>2, <1>3, <1>4 DEF Begins

LEMMA SlurmType ==
    ASSUME TypeOK, NEW t \in NodeTypes, NEW a \in Attempts, Slurm(t, a)
    PROVE  TypeOK'
<1> DEFINE JobFns == [NodeTypes -> [Attempts -> Jobs]]
<1>1. CASE SbatchAccepts(t, a)
  <2>1. PICK f \in scripts :
          job' = [job EXCEPT ![t][a] = [st |-> "pending", type |-> f.type, opts |-> f.opts]]
    BY <1>1 DEF SbatchAccepts
  <2>2. [st |-> "pending", type |-> f.type, opts |-> f.opts] \in Jobs
    BY DEF TypeOK, Scripts, Jobs, JobStates
  <2>3. job' \in JobFns
    BY <2>1, <2>2 DEF TypeOK
  <2> QED  BY <1>1, <2>3 DEF TypeOK, SbatchAccepts, local
<1>2. CASE SbatchRejects(t, a)
  <2>1. job \in JobFns /\ "rejected" \in JobStates
    BY DEF TypeOK, JobStates
  <2>2. job' \in JobFns
    BY <1>2, <2>1, SetJobState DEF SbatchRejects
  <2> QED  BY <1>2, <2>2 DEF TypeOK, SbatchRejects, local
<1>3. CASE JobRuns(t, a)
  <2>1. PICK n \in Eligible(job[t][a].type, job[t][a].opts), end \in {"completed", "failed"} :
          /\ job' = SetState(job, t, a, end)
          /\ outputs' = Overwrite(outputs, [name |-> name[t], type |-> t,
                                            attempt |-> a, node |-> n])
    BY <1>3 DEF JobRuns
  <2>2. job \in JobFns /\ end \in JobStates
    BY DEF TypeOK, JobStates
  <2>3. job' \in JobFns
    BY <2>1, <2>2, SetJobState
  <2>4. n \in Nodes
    BY DEF Eligible
  <2>5. outputs' \subseteq Outputs
    BY <2>1, <2>4 DEF Overwrite, Outputs, TypeOK
  <2> QED  BY <1>3, <2>3, <2>5 DEF TypeOK, JobRuns, local
<1>4. CASE JobCancelled(t, a)
  <2>1. job \in JobFns /\ "cancelled" \in JobStates
    BY DEF TypeOK, JobStates
  <2>2. job' \in JobFns
    BY <1>4, <2>1, SetJobState DEF JobCancelled
  <2> QED  BY <1>4, <2>2 DEF TypeOK, JobCancelled, local
<1> QED  BY <1>1, <1>2, <1>3, <1>4 DEF Slurm, Sbatch

\* One step per action of Next.
LEMMA TypeStep ==
    ASSUME TypeOK, ControlInv, [Next]_vars
    PROVE  TypeOK'
<1>1. ASSUME NEW t \in NodeTypes, Decline(t)  PROVE TypeOK'
  BY <1>1 DEF TypeOK, Decline, files, shared
<1>2. ASSUME NEW t \in NodeTypes, Begin(t)  PROVE TypeOK'
  BY <1>2, BeginCases, BeginType
<1>3. ASSUME NEW t \in NodeTypes, BeginFails(t)  PROVE TypeOK'
  <2>1. keepTmp' \in BOOLEAN
    BY <1>3 DEF TypeOK, BeginFails
  <2>2. pn' \in Nat /\ pc' \in [NodeTypes -> {"ready", "reading", "waiting", "done", "raised"}]
    BY <1>3 DEF TypeOK, BeginFails, Raise
  <2> QED  BY <1>3, <2>1, <2>2 DEF TypeOK, BeginFails, files
<1>4. ASSUME NEW t \in NodeTypes, Resume(t)  PROVE TypeOK'
  <2>1. CASE Waits(t)
    BY <2>1 DEF TypeOK, Waits, files, shared
  <2>2. CASE Raises(t)
    BY <2>2 DEF TypeOK, Raises, Raise, files
  <2>3. ASSUME NEW executed \in BOOLEAN, NEW cancelled \in BOOLEAN,
               NEW jobs \in [NodeTypes -> [Attempts -> Jobs]],
               AttemptEnds(t, executed, cancelled, jobs)
        PROVE  TypeOK'
    <3>1. attempt[t] \in Attempts
      BY <2>3 DEF AttemptEnds, ControlInv, SuspendInv
    <3> QED  BY <2>3, <3>1, AfterAttemptType DEF AttemptEnds
  <2> QED  BY <1>4, <2>1, <2>2, <2>3, ResumeCases
<1>5. ASSUME NEW t \in NodeTypes, NEW a \in Attempts, Slurm(t, a)  PROVE TypeOK'
  BY <1>5, SlurmType
<1>6. CASE Main
  BY <1>6 DEF TypeOK, Main, StartStatusBar, Finally, StatusBarCancelled, KeepsTmpDir,
              Outcome, files, shared
<1>7. CASE UNCHANGED vars
  BY <1>7 DEF TypeOK, vars
<1> QED  BY <1>1, <1>2, <1>3, <1>4, <1>5, <1>6, <1>7 DEF Next, Coroutine, Terminated

-----------------------------------------------------------------------------
(* The control invariant is preserved. *)

\* scancel touches one pending job, which goes on living.
LEMMA ScancelFacts ==
    ASSUME TypeOK, NEW t \in NodeTypes, attempt[t] \in Attempts,
           NEW jobs, jobs = job \/ jobs = ScancelJob(t)
    PROVE  /\ jobs \in [NodeTypes -> [Attempts -> Jobs]]
           /\ \A u \in NodeTypes, b \in Attempts :
                /\ jobs[u][b].type = job[u][b].type /\ jobs[u][b].opts = job[u][b].opts
                /\ Live(jobs[u][b]) <=> Live(job[u][b])
                /\ \A st \in JobStates \ {"pending", "cancelling"} :
                        jobs[u][b].st = st <=> job[u][b].st = st
                /\ jobs[u][b].st = "pending" => job[u][b].st = "pending"
<1>1. job \in [NodeTypes -> [Attempts -> Jobs]] /\ "cancelling" \in JobStates
  BY DEF TypeOK, JobStates
<1>2. CASE jobs = job
  <2>1. jobs \in [NodeTypes -> [Attempts -> Jobs]]
    BY <1>1, <1>2
  <2> QED  BY <1>2, <2>1
<1>3. CASE job[t][attempt[t]].st = "pending"
           /\ jobs = SetState(job, t, attempt[t], "cancelling")
  <2> DEFINE a == attempt[t]
             new == SetState(job, t, a, "cancelling")
  <2>0. a \in Attempts /\ job[t][a].st = "pending" /\ jobs = new
    BY <1>3
  <2> HIDE DEF a
  <2>1. /\ new \in [NodeTypes -> [Attempts -> Jobs]]
        /\ new[t][a].st = "cancelling"
        /\ new[t][a].type = job[t][a].type /\ new[t][a].opts = job[t][a].opts
        /\ \A u \in NodeTypes, b \in Attempts :
                (u # t \/ b # a) => new[u][b] = job[u][b]
    <3>1. new \in [NodeTypes -> [Attempts -> Jobs]]
      BY <1>1, <2>0, SetJobState
    <3>2. new[t][a].st = "cancelling"
      BY <1>1, <2>0, SetJobState
    <3>3. new[t][a].type = job[t][a].type
      BY <1>1, <2>0, SetJobState
    <3>4. new[t][a].opts = job[t][a].opts
      BY <1>1, <2>0, SetJobState
    <3>5. \A u \in NodeTypes, b \in Attempts :
                (u # t \/ b # a) => new[u][b] = job[u][b]
      BY <1>1, <2>0, SetJobState
    <3> QED  BY <3>1, <3>2, <3>3, <3>4, <3>5
  <2> HIDE DEF new
  <2>2. ASSUME NEW u \in NodeTypes, NEW b \in Attempts
        PROVE  /\ jobs[u][b].type = job[u][b].type /\ jobs[u][b].opts = job[u][b].opts
               /\ Live(jobs[u][b]) <=> Live(job[u][b])
               /\ \A st \in JobStates \ {"pending", "cancelling"} :
                        jobs[u][b].st = st <=> job[u][b].st = st
               /\ jobs[u][b].st = "pending" => job[u][b].st = "pending"
    <3>1. CASE u = t /\ b = a
      BY <2>0, <2>1, <3>1 DEF Live
    <3>2. CASE u # t \/ b # a
      BY <2>0, <2>1, <3>2
    <3> QED  BY <3>1, <3>2
  <2> QED  BY <2>0, <2>1, <2>2
<1> QED  BY <1>2, <1>3 DEF ScancelJob

\* The coroutine submits its second attempt.
Retries(t, jobs) ==
    /\ attempt[t] = 1 /\ HasAccessPartition(t)
    /\ Submit(t, 2, name[t], {"part"}, jobs)
    /\ UNCHANGED <<partitions, name, pn, keepTmp, tmpDir, outputs, main>>

\* The coroutine ends, with or without a partition.
Ends(t, executed, jobs) ==
    /\ LET read == IF executed /\ Wait THEN {f \in outputs : f.name = name[t]} ELSE {}
       IN  \/ Raise(t) /\ UNCHANGED partitions /\ executed /\ Wait /\ read = {}
           \/ \E opts \in SUBSET Options :
                    AppendPartition(t, name[t], opts, {f.node : f \in read})
    /\ cwd' = "wdir" /\ job' = jobs
    /\ UNCHANGED <<attempt, scripts, name, pn, keepTmp, tmpDir, outputs, main>>

LEMMA AttemptEndsCases ==
    ASSUME TypeOK, NEW t \in NodeTypes, NEW executed \in BOOLEAN, NEW cancelled \in BOOLEAN,
           NEW jobs, AttemptEnds(t, executed, cancelled, jobs)
    PROVE  (Retries(t, jobs) /\ ~cancelled) \/ Ends(t, executed, jobs)
<1>1. CASE /\ MayRetry(t, executed, cancelled)
           /\ Submit(t, attempt[t] + 1, name[t], {"part"}, jobs)
           /\ UNCHANGED <<access, partitions, jobPoll>>
  <2>1. attempt[t] + 1 = 2
    BY <1>1 DEF MayRetry
  <2> QED  BY <1>1, <2>1 DEF MayRetry, Retries, AttemptEnds, AfterAttempt
<1>2. CASE /\ Conclude(t, access[t] \cup Learned(t, executed, cancelled), executed, cancelled)
           /\ job' = jobs
  <2> DEFINE opts  == access[t] \cup Learned(t, executed, cancelled)
             final == IF executed \/ cancelled THEN opts ELSE opts \cup Constraint(t)
             read  == IF executed /\ Wait THEN {f \in outputs : f.name = name[t]} ELSE {}
  <2>1. final \in SUBSET Options
    BY OptionSets DEF TypeOK, Learned, Options
  <2>2. \/ Raise(t) /\ UNCHANGED partitions /\ executed /\ Wait /\ read = {}
        \/ AppendPartition(t, name[t], final, {f.node : f \in read})
    BY <1>2 DEF Conclude
  <2>3. cwd' = "wdir" /\ UNCHANGED <<attempt, scripts>>
    BY <1>2 DEF Conclude, LeaveTmpDir
  <2> HIDE DEF final
  <2>4. \/ Raise(t) /\ UNCHANGED partitions /\ executed /\ Wait /\ read = {}
        \/ \E o \in SUBSET Options : AppendPartition(t, name[t], o, {f.node : f \in read})
    BY <2>1, <2>2
  <2> QED  BY <1>2, <2>3, <2>4 DEF Ends, AttemptEnds, AfterAttempt
<1> QED  BY <1>1, <1>2 DEF AttemptEnds, AfterAttempt

IsNext(t, a) == a = attempt[t] + 1

\* A submission keeps the control invariant.
LEMMA SubmitControl ==
    ASSUME TypeOK, ControlInv, LoopRuns, NEW t \in NodeTypes, NEW a \in Attempts, NEW nm, NEW opts,
           NEW jobs \in [NodeTypes -> [Attempts -> Jobs]],
           \A u \in NodeTypes, b \in Attempts : \A st \in {"none", "spawned"} :
                jobs[u][b].st = st <=> job[u][b].st = st,
           Submit(t, a, nm, opts, jobs),
           pc[t] = "ready" \/ (AllStarted /\ Suspended(t)), IsNext(t, a),
           keepTmp', \A u \in NodeTypes : u # t => name'[u] = name[u],
           UNCHANGED <<tmpDir, main>>
    PROVE  ControlInv'
<1>0. attempt \in [NodeTypes -> 0..2] /\ DOMAIN pc = NodeTypes
  BY DEF TypeOK
<1>1. /\ attempt' = [attempt EXCEPT ![t] = a] /\ pc' = [pc EXCEPT ![t] = "reading"]
      /\ cwd' = "tmp" /\ scripts' # {}
  BY DEF Submit, Overwrite
<1>2. /\ job' \in [NodeTypes -> [Attempts -> Jobs]] /\ job'[t][a].st = "spawned"
      /\ \A u \in NodeTypes, b \in Attempts : (u # t \/ b # a) => job'[u][b] = jobs[u][b]
  <2>1. "spawned" \in JobStates /\ job' = SetState(jobs, t, a, "spawned")
    BY DEF JobStates, Submit
  <2>2. job' \in [NodeTypes -> [Attempts -> Jobs]]
    BY <2>1, SetJobState
  <2> QED  BY <2>2, SubmittedJobs
<1>3. tmpDir
  BY DEF ControlInv, TmpInv, AllStarted, SuspendInv
<1>4. StartInv'
  BY <1>1 DEF TypeOK, ControlInv, StartInv
<1>5. SuspendInv'
  <2> SUFFICES ASSUME NEW u \in NodeTypes, Suspended(u)'
               PROVE  /\ attempt'[u] \in Attempts /\ job'[u][attempt'[u]].st # "none"
                      /\ pc'[u] = "waiting" => job'[u][attempt'[u]].st # "spawned"
    BY DEF SuspendInv, Suspended
  <2>1. CASE u = t
    BY <1>0, <1>1, <1>2, <2>1
  <2>2. CASE u # t
    <3>1. Suspended(u) /\ attempt'[u] = attempt[u] /\ pc'[u] = pc[u]
      BY <1>0, <1>1, <2>2 DEF Suspended
    <3>2. /\ attempt[u] \in Attempts /\ job[u][attempt[u]].st # "none"
          /\ pc[u] = "waiting" => job[u][attempt[u]].st # "spawned"
      BY <3>1 DEF ControlInv, SuspendInv
    <3> QED  BY <1>2, <2>2, <3>1, <3>2
  <2> QED  BY <2>1, <2>2
<1>6. JobAgeInv'
  <2> SUFFICES ASSUME NEW u \in NodeTypes, NEW b \in Attempts, job'[u][b].st # "none"
               PROVE  b <= attempt'[u]
    BY DEF JobAgeInv
  <2>1. CASE u = t /\ b = a
    BY <1>0, <1>1, <2>1 DEF Attempts
  <2>2. CASE u # t \/ b # a
    <3>1. b <= attempt[u]
      BY <1>2, <2>2 DEF ControlInv, JobAgeInv
    <3> QED  BY <1>0, <1>1, <3>1 DEF Attempts, IsNext
  <2> QED  BY <2>1, <2>2
<1>7. TmpInv'
  BY <1>3 DEF TmpInv
<1>8. CwdInv'
  BY <1>1 DEF TypeOK, CwdInv, Suspended
<1>9. MainInv'
  <2>1. main # "finished"
    BY DEF LoopRuns
  <2>2. GatherDone => GatherDone'
    BY <1>1 DEF TypeOK, GatherDone, AllStarted, Suspended
  <2> QED  BY <2>1, <2>2 DEF ControlInv, MainInv
<1> QED  BY <1>4, <1>5, <1>6, <1>7, <1>8, <1>9 DEF ControlInv

\* A coroutine that ends, or goes on to wait, keeps the control invariant:
\* no job is submitted, and TMP_DIR is left when the coroutine was suspended
\* there.
LEMMA MoveControl ==
    ASSUME TypeOK, ControlInv, LoopRuns, NEW t \in NodeTypes,
           pc[t] = "ready" \/ (AllStarted /\ Suspended(t)),
           NEW to \in {"waiting", "done", "raised"},
           pc' = [pc EXCEPT ![t] = to],
           to = "waiting" => pc[t] = "reading" /\ job[t][attempt[t]].st # "spawned",
           \/ UNCHANGED cwd /\ (Suspended(t) => to = "waiting")
           \/ cwd' = "wdir",
           keepTmp => keepTmp', keepTmp' => keepTmp \/ ~AllStarted,
           job' = job \/ (Suspended(t) /\ job' = ScancelJob(t)),
           \A u \in NodeTypes : u # t => name'[u] = name[u],
           UNCHANGED <<attempt, scripts, tmpDir, main>>
    PROVE  ControlInv'
<1>1. Suspended(t) => attempt[t] \in Attempts
  BY DEF ControlInv, SuspendInv
<1>2. \A u \in NodeTypes, b \in Attempts : \A st \in {"none", "spawned"} :
            job'[u][b].st = st <=> job[u][b].st = st
  <2>1. {"none", "spawned"} \subseteq JobStates \ {"pending", "cancelling"}
    BY DEF JobStates
  <2>2. CASE Suspended(t)
    <3>1. \A u \in NodeTypes, b \in Attempts : \A st \in JobStates \ {"pending", "cancelling"} :
              job'[u][b].st = st <=> job[u][b].st = st
      BY <1>1, <2>2, ScancelFacts
    <3> QED  BY <2>1, <3>1
  <2> QED  BY <2>2
<1>4. StartInv'
  BY DEF TypeOK, ControlInv, StartInv
<1>5. SuspendInv'
  BY <1>1, <1>2 DEF TypeOK, ControlInv, SuspendInv, Suspended
<1>6. JobAgeInv'
  BY <1>2 DEF ControlInv, JobAgeInv
<1>7. TmpInv'
  BY DEF TypeOK, ControlInv, TmpInv, AllStarted
<1>8. CwdInv'
  BY DEF TypeOK, ControlInv, CwdInv, Suspended
<1>9. MainInv'
  <2>1. main # "finished"
    BY DEF LoopRuns
  <2>2. GatherDone => GatherDone'
    BY DEF TypeOK, GatherDone, AllStarted, Suspended
  <2> QED  BY <2>1, <2>2 DEF ControlInv, MainInv
<1> QED  BY <1>4, <1>5, <1>6, <1>7, <1>8, <1>9 DEF ControlInv

\* What a step of Slurm leaves alone: it moves one job that exists, and does
\* not touch the coroutines.
LEMMA SlurmFacts ==
    ASSUME TypeOK, NEW t \in NodeTypes, NEW a \in Attempts, Slurm(t, a)
    PROVE  /\ job[t][a].st # "none"
           /\ job'[t][a].st \in JobStates \ {"none", "spawned"}
           /\ \A u \in NodeTypes, b \in Attempts : (u # t \/ b # a) => job'[u][b] = job[u][b]
           /\ UNCHANGED local
<1>0. job \in [NodeTypes -> [Attempts -> Jobs]]
  BY DEF TypeOK
<1>1. CASE SbatchAccepts(t, a)
  <2>1. PICK f \in scripts :
          job' = [job EXCEPT ![t][a] = [st |-> "pending", type |-> f.type, opts |-> f.opts]]
    BY <1>1 DEF SbatchAccepts
  <2> DEFINE new == [st |-> "pending", type |-> f.type, opts |-> f.opts]
  <2>2. new.st = "pending" /\ job' = [job EXCEPT ![t][a] = new]
    BY <2>1
  <2> HIDE DEF new
  <2>3. /\ job'[t][a] = new
        /\ \A u \in NodeTypes, b \in Attempts : (u # t \/ b # a) => job'[u][b] = job[u][b]
    BY <1>0, <2>2
  <2> QED  BY <1>1, <2>2, <2>3 DEF SbatchAccepts, JobStates
<1>2. ASSUME NEW st \in JobStates \ {"none", "spawned"}, job' = SetState(job, t, a, st)
      PROVE  /\ job'[t][a].st \in JobStates \ {"none", "spawned"}
             /\ \A u \in NodeTypes, b \in Attempts : (u # t \/ b # a) => job'[u][b] = job[u][b]
  <2>1. st \in JobStates
    OBVIOUS
  <2>2. SetState(job, t, a, st)[t][a].st = st
    BY <1>0, <2>1, SetJobState
  <2>3. \A u \in NodeTypes, b \in Attempts :
            (u # t \/ b # a) => SetState(job, t, a, st)[u][b] = job[u][b]
    BY <1>0, <2>1, SetJobState
  <2> QED  BY <1>2, <2>2, <2>3
<1>3. CASE SbatchRejects(t, a)
  <2>1. "rejected" \in JobStates \ {"none", "spawned"}
    BY DEF JobStates
  <2> QED  BY <1>2, <1>3, <2>1 DEF SbatchRejects
<1>4. CASE JobRuns(t, a)
  <2>1. PICK end \in {"completed", "failed"} : job' = SetState(job, t, a, end)
    BY <1>4 DEF JobRuns
  <2>2. end \in JobStates \ {"none", "spawned"}
    BY DEF JobStates
  <2> QED  BY <1>2, <1>4, <2>1, <2>2 DEF JobRuns
<1>5. CASE JobCancelled(t, a)
  <2>1. "cancelled" \in JobStates \ {"none", "spawned"}
    BY DEF JobStates
  <2> QED  BY <1>2, <1>5, <2>1 DEF JobCancelled
<1> QED  BY <1>1, <1>3, <1>4, <1>5 DEF Slurm, Sbatch

LEMMA SlurmControl ==
    ASSUME TypeOK, ControlInv, NEW t \in NodeTypes, NEW a \in Attempts, Slurm(t, a)
    PROVE  ControlInv'
<1>1. /\ job[t][a].st # "none"
      /\ job'[t][a].st \notin {"none", "spawned"}
      /\ \A u \in NodeTypes, b \in Attempts : (u # t \/ b # a) => job'[u][b] = job[u][b]
  BY SlurmFacts
<1>2. UNCHANGED <<pc, attempt, name, keepTmp, tmpDir, cwd, scripts, main>>
  BY SlurmFacts DEF local
<1>3. \A u \in NodeTypes, b \in Attempts : \A st \in {"none", "spawned"} :
            job'[u][b].st = st => job[u][b].st = st
  BY <1>1
<1>4. SuspendInv'
  BY <1>2, <1>3 DEF ControlInv, SuspendInv, Suspended
<1>5. JobAgeInv'
  BY <1>1, <1>2 DEF ControlInv, JobAgeInv
<1> QED  BY <1>2, <1>4, <1>5 DEF ControlInv, StartInv, TmpInv, AllStarted, CwdInv, Suspended,
                                 MainInv, GatherDone, AllDone

LEMMA BeginControl ==
    ASSUME TypeOK, ControlInv, NEW t \in NodeTypes, NEW nm \in Nat, NEW opts \in SUBSET Options,
           NEW detect \in BOOLEAN, Begins(t, nm, opts, detect)
    PROVE  ControlInv'
<1>1. /\ LoopRuns /\ pc[t] = "ready" /\ attempt[t] = 0 /\ ~Suspended(t) /\ ~AllStarted
      /\ \A u \in NodeTypes : u # t => name'[u] = name[u]
      /\ keepTmp => keepTmp'
      /\ UNCHANGED <<tmpDir, main>>
  BY DEF Begins, TypeOK, ControlInv, StartInv, Suspended, AllStarted
<1>2. CASE /\ \E more \in SUBSET Options : AppendPartition(t, nm, more, {})
           /\ UNCHANGED <<attempt, scripts, job, cwd>>
  BY <1>1, <1>2, MoveControl DEF AppendPartition
<1>3. CASE detect /\ Submit(t, 1, nm, opts \cup Constraint(t), job)
  <2>1. keepTmp'
    BY <1>3, Zenon DEF Begins
  <2>2. 1 \in Attempts /\ IsNext(t, 1) /\ job \in [NodeTypes -> [Attempts -> Jobs]]
    BY <1>1 DEF Attempts, TypeOK, IsNext
  <2> QED  BY <1>1, <1>3, <2>1, <2>2, SubmitControl
<1>4. CASE Raise(t) /\ cwd' = "wdir" /\ UNCHANGED <<attempt, scripts, job, partitions>>
  BY <1>1, <1>4, MoveControl DEF Raise
<1> QED  BY <1>2, <1>3, <1>4 DEF Begins

LEMMA ResumeControl ==
    ASSUME TypeOK, ControlInv, NEW t \in NodeTypes, Resume(t)
    PROVE  ControlInv'
<1>1. LoopRuns /\ AllStarted
  BY ResumeCases
<1>2. CASE Waits(t)
  BY <1>1, <1>2, MoveControl DEF Waits, Suspended, files, shared
<1>3. CASE Raises(t)
  BY <1>1, <1>3, MoveControl DEF Raises, Raise, files
<1>4. ASSUME NEW executed \in BOOLEAN, NEW cancelled \in BOOLEAN,
             NEW jobs \in [NodeTypes -> [Attempts -> Jobs]],
             AttemptEnds(t, executed, cancelled, jobs)
      PROVE  ControlInv'
  <2>1. Suspended(t) /\ attempt[t] \in Attempts /\ keepTmp
        /\ (jobs = job \/ jobs = ScancelJob(t))
    BY <1>4 DEF AttemptEnds, ControlInv, SuspendInv
  <2>2. CASE Retries(t, jobs)
    <3>1. 2 \in Attempts /\ IsNext(t, 2)
      BY <2>2 DEF Attempts, Retries, IsNext
    <3>2. /\ Submit(t, 2, name[t], {"part"}, jobs) /\ keepTmp' /\ name' = name
          /\ UNCHANGED <<tmpDir, main>>
      BY <2>1, <2>2 DEF Retries
    <3>3. \A u \in NodeTypes, b \in Attempts : \A st \in {"none", "spawned"} :
                jobs[u][b].st = st <=> job[u][b].st = st
      <4>1. {"none", "spawned"} \subseteq JobStates \ {"pending", "cancelling"}
        BY DEF JobStates
      <4>2. \A u \in NodeTypes, b \in Attempts : \A st \in JobStates \ {"pending", "cancelling"} :
                jobs[u][b].st = st <=> job[u][b].st = st
        BY <2>1, ScancelFacts
      <4> QED  BY <4>1, <4>2
    <3> QED  BY <1>1, <2>1, <3>1, <3>2, <3>3, SubmitControl
  <2>3. CASE Ends(t, executed, jobs)
    <3>1. \E to \in {"done", "raised"} : pc' = [pc EXCEPT ![t] = to]
      BY <2>3 DEF Ends, Raise, AppendPartition
    <3>2. /\ job' = jobs /\ cwd' = "wdir" /\ name' = name
          /\ UNCHANGED <<attempt, scripts, keepTmp, tmpDir, main>>
      BY <2>3 DEF Ends
    <3> QED  BY <1>1, <2>1, <3>1, <3>2, MoveControl
  <2> QED  BY <1>4, <2>2, <2>3, AttemptEndsCases
<1> QED  BY <1>2, <1>3, <1>4, ResumeCases

\* One step per action of Next.
LEMMA ControlStep ==
    ASSUME TypeOK, ControlInv, [Next]_vars
    PROVE  ControlInv'
<1>1. ASSUME NEW t \in NodeTypes, Decline(t)  PROVE ControlInv'
  <2>1. pc[t] = "ready" /\ ~AllStarted /\ ~Suspended(t)
    BY <1>1 DEF Decline, AllStarted, Suspended
  <2> QED  BY <1>1, <2>1, MoveControl DEF Decline, files, shared
<1>2. ASSUME NEW t \in NodeTypes, Begin(t)  PROVE ControlInv'
  BY <1>2, BeginCases, BeginControl
<1>3. ASSUME NEW t \in NodeTypes, BeginFails(t)  PROVE ControlInv'
  <2>1. pc[t] = "ready" /\ ~AllStarted /\ ~Suspended(t)
    BY <1>3 DEF BeginFails, AllStarted, Suspended
  <2>2. keepTmp => keepTmp'
    BY <1>3, Zenon DEF BeginFails
  <2> QED  BY <1>3, <2>1, <2>2, MoveControl DEF BeginFails, Raise, files
<1>4. ASSUME NEW t \in NodeTypes, Resume(t)  PROVE ControlInv'
  BY <1>4, ResumeControl
<1>5. ASSUME NEW t \in NodeTypes, NEW a \in Attempts, Slurm(t, a)  PROVE ControlInv'
  BY <1>5, SlurmControl
<1>6. CASE Main
  <2>1. UNCHANGED <<pc, attempt, name, job, scripts, cwd, keepTmp>>
    BY <1>6 DEF Main, StartStatusBar, Finally, StatusBarCancelled, files, shared
  <2>2. StartInv' /\ SuspendInv' /\ JobAgeInv' /\ CwdInv'
    BY <2>1 DEF ControlInv, StartInv, SuspendInv, JobAgeInv, CwdInv, Suspended
  <2>3. TmpInv'
    <3>1. CASE Finally
      <4>1. AllStarted
        BY <3>1 DEF Finally, GatherDone, AllStarted
      <4>2. ~tmpDir' => ~keepTmp
        BY <3>1 DEF Finally, KeepsTmpDir
      <4> QED  BY <2>1, <4>1, <4>2 DEF ControlInv, TmpInv, AllStarted
    <3>2. CASE StartStatusBar \/ StatusBarCancelled
      <4>1. UNCHANGED tmpDir
        BY <3>2 DEF StartStatusBar, StatusBarCancelled, shared
      <4> QED  BY <2>1, <4>1 DEF ControlInv, TmpInv, AllStarted
    <3> QED  BY <1>6, <3>1, <3>2 DEF Main
  <2>4. MainInv'
    <3>1. Outcome = "finished" /\ GatherDone => AllDone
      BY DEF Outcome, GatherDone, AllDone
    <3>2. Finally \/ StatusBarCancelled => GatherDone /\ main' \in {"cancelbar", Outcome}
      BY DEF Finally, StatusBarCancelled, ControlInv, MainInv
    <3>3. Outcome \in {"finished", "failed"}
      BY DEF Outcome
    <3> QED  BY <1>6, <2>1, <3>1, <3>2, <3>3
             DEF Main, StartStatusBar, MainInv, GatherDone, AllStarted, AllDone
  <2> QED  BY <2>2, <2>3, <2>4 DEF ControlInv
<1>7. CASE UNCHANGED vars
  BY <1>7 DEF vars, ControlInv, StartInv, SuspendInv, JobAgeInv, TmpInv, CwdInv, MainInv,
              Suspended, AllStarted, GatherDone, AllDone
<1> QED  BY <1>1, <1>2, <1>3, <1>4, <1>5, <1>6, <1>7 DEF Next, Coroutine, Terminated

LEMMA InitControl == Init => TypeOK /\ ControlInv
<1> SUFFICES ASSUME Init  PROVE TypeOK /\ ControlInv
  OBVIOUS
<1>1. NoJob \in Jobs
  BY DEF NoJob, Jobs, JobStates
<1>2. job \in [NodeTypes -> [Attempts -> Jobs]]
  BY <1>1 DEF Init
<1>3. partitions \in Seq(Partitions)
  BY DEF Init
<1>4. TypeOK
  <2>1. /\ attempt \in [NodeTypes -> 0..2] /\ name \in [NodeTypes -> Nat]
        /\ idSeen \in [NodeTypes -> BOOLEAN] /\ access \in [NodeTypes -> SUBSET Options]
        /\ pc \in [NodeTypes -> {"ready", "reading", "waiting", "done", "raised"}]
    BY DEF Init
  <2>2. keepTmp \in BOOLEAN /\ tmpDir \in BOOLEAN
    BY DEF Init
  <2>3. /\ pn \in Nat /\ cwd \in {"wdir", "tmp"} /\ scripts \subseteq Scripts
        /\ outputs \subseteq Outputs /\ jobPoll \subseteq NodeTypes \X Attempts
        /\ main \in {"waiting", "bar", "cancelbar", "finished", "failed"}
    BY DEF Init
  <2> QED  BY <1>2, <1>3, <2>1, <2>2, <2>3 DEF TypeOK
<1>5. ControlInv
  BY DEF Init, ControlInv, StartInv, SuspendInv, JobAgeInv, TmpInv, CwdInv, MainInv,
         Suspended, NoJob
<1> QED  BY <1>4, <1>5

\* Every variable keeps the values its code gives it, and the coroutines,
\* create_partitions and the shared directory stay in step, on every cluster
\* and with every option.
THEOREM TypeCorrect == Spec => [](TypeOK /\ ControlInv)
<1>1. TypeOK /\ ControlInv /\ [Next]_vars => (TypeOK /\ ControlInv)'
  BY TypeStep, ControlStep
<1> QED  BY InitControl, <1>1, PTL DEF Spec

\* create_partitions never returns with the process left in TMP_DIR: the
\* last coroutine suspended inside "with change_dir" has left it by then.
THEOREM CwdSafe == Spec => []CwdRestored
<1>1. TypeOK /\ ControlInv => CwdRestored
  BY DEF TypeOK, ControlInv, CwdInv, MainInv, AllDone, Suspended, CwdRestored
<1> QED  BY TypeCorrect, <1>1, PTL

\* The finally block never removes TMP_DIR under a script or a job: the
\* decision to keep it is taken before the first submission.
THEOREM TmpDirSafe == Spec => []TmpDirKept
<1>1. TypeOK /\ ControlInv => TmpDirKept
  BY DEF TypeOK, ControlInv, JobAgeInv, TmpInv, Live, TmpDirKept
<1> QED  BY TypeCorrect, <1>1, PTL

-----------------------------------------------------------------------------
(* One partition per node type. *)

LEMMA PartitionTypes ==
    ASSUME TypeOK, NEW i \in DOMAIN partitions
    PROVE  partitions[i] \in Partitions /\ partitions[i].type \in NodeTypes
<1>1. partitions \in Seq(Partitions)
  BY DEF TypeOK
<1>2. DOMAIN partitions = 1..Len(partitions) /\ Len(partitions) \in Nat
  BY <1>1
<1>3. i \in 1..Len(partitions)
  BY <1>2
<1>4. partitions[i] \in Partitions
  BY <1>1, <1>3
<1> QED  BY <1>4 DEF Partitions

\* A coroutine that appends its partition is the only one to have its type.
LEMMA PartitionsAppended ==
    ASSUME TypeOK, PartitionInv, NEW t \in NodeTypes, NEW nm \in Nat,
           NEW opts \in SUBSET Options, NEW from \in SUBSET Nodes,
           pc[t] # "done", name'[t] = nm, \A u \in NodeTypes : u # t => name'[u] = name[u],
           AppendPartition(t, nm, opts, from)
    PROVE  PartitionInv'
<1> DEFINE new == [type |-> t, name |-> nm, access |-> opts, from |-> from]
           last == Len(partitions) + 1
<1>1. new \in Partitions /\ partitions' = Append(partitions, new)
      /\ pc' = [pc EXCEPT ![t] = "done"] /\ DOMAIN pc = NodeTypes
      /\ partitions \in Seq(Partitions)
  BY DEF AppendPartition, Partitions, TypeOK
<1>2. new.type = t /\ new.name = nm
  OBVIOUS
<1> HIDE DEF new
<1>3. /\ DOMAIN partitions = 1..Len(partitions) /\ DOMAIN partitions' = 1..last
      /\ Len(partitions) \in Nat
      /\ partitions'[last] = new
      /\ \A i \in DOMAIN partitions : partitions'[i] = partitions[i]
  BY <1>1
<1>4. \A i \in DOMAIN partitions' : i \in DOMAIN partitions \/ i = last
  BY <1>3
<1>5. \A i \in DOMAIN partitions :
            /\ i \in DOMAIN partitions' /\ i # last
            /\ partitions[i].type \in NodeTypes /\ partitions[i].type # t
  <2> TAKE i \in DOMAIN partitions
  <2>1. i \in DOMAIN partitions' /\ i # last
    BY <1>3
  <2>2. partitions[i].type \in NodeTypes
    BY PartitionTypes
  <2>3. partitions[i].type # t
    BY DEF PartitionInv
  <2> QED  BY <2>1, <2>2, <2>3
<1>6. \A i \in DOMAIN partitions' :
            pc'[partitions'[i].type] = "done" /\ partitions'[i].name = name'[partitions'[i].type]
  BY <1>1, <1>2, <1>3, <1>4, <1>5 DEF PartitionInv
<1>7. \A i, j \in DOMAIN partitions' : partitions'[i].type = partitions'[j].type => i = j
  <2> SUFFICES ASSUME NEW i \in DOMAIN partitions', NEW j \in DOMAIN partitions',
                      partitions'[i].type = partitions'[j].type
               PROVE  i = j
    OBVIOUS
  <2>1. CASE i \in DOMAIN partitions /\ j \in DOMAIN partitions
    BY <1>3, <2>1 DEF PartitionInv
  <2>2. CASE i = last \/ j = last
    BY <1>2, <1>3, <1>4, <1>5, <2>2
  <2> QED  BY <1>4, <2>1, <2>2
<1>8. \A u \in NodeTypes : (pc'[u] = "done" /\ ~UserInput) => CreatedBy(u)' # {}
  <2> SUFFICES ASSUME NEW u \in NodeTypes, pc'[u] = "done", ~UserInput
               PROVE  \E i \in DOMAIN partitions' : partitions'[i].type = u
    BY DEF CreatedBy
  <2>1. CASE u = t
    <3>1. last \in DOMAIN partitions'
      BY <1>3
    <3> QED  BY <1>2, <1>3, <2>1, <3>1
  <2>2. CASE u # t
    <3>1. PICK i \in DOMAIN partitions : partitions[i].type = u
      BY <1>1, <2>2 DEF PartitionInv, CreatedBy
    <3> QED  BY <1>3, <1>5, <3>1
  <2> QED  BY <2>1, <2>2
<1> QED  BY <1>6, <1>7, <1>8 DEF PartitionInv

LEMMA PartitionsKept ==
    ASSUME TypeOK, PartitionInv, partitions' = partitions,
           \A u \in NodeTypes : pc[u] = "done" => pc'[u] = "done" /\ name'[u] = name[u],
           \A u \in NodeTypes : (pc'[u] = "done" /\ ~UserInput) => pc[u] = "done"
    PROVE  PartitionInv'
<1>1. \A i \in DOMAIN partitions : partitions[i].type \in NodeTypes
  BY PartitionTypes
<1> QED  BY <1>1 DEF PartitionInv, CreatedBy

\* One step per action of Next.
LEMMA PartitionStep ==
    ASSUME TypeOK, ControlInv, PartitionInv, [Next]_vars
    PROVE  PartitionInv'
<1>0. DOMAIN pc = NodeTypes /\ DOMAIN name = NodeTypes
  BY DEF TypeOK
<1>1. ASSUME NEW t \in NodeTypes, Decline(t)  PROVE PartitionInv'
  BY <1>0, <1>1, PartitionsKept DEF Decline
<1>2. ASSUME NEW t \in NodeTypes, Begin(t)  PROVE PartitionInv'
  <2>1. PICK nm \in Nat, opts \in SUBSET Options, detect \in BOOLEAN : Begins(t, nm, opts, detect)
    BY <1>2, BeginCases
  <2>2. /\ pc[t] = "ready" /\ name'[t] = nm
        /\ \A u \in NodeTypes : u # t => name'[u] = name[u]
    BY <1>0, <2>1 DEF Begins
  <2>3. CASE \E more \in SUBSET Options : AppendPartition(t, nm, more, {})
    BY <2>2, <2>3, PartitionsAppended
  <2>4. CASE UNCHANGED partitions /\ \E to \in {"reading", "raised"} : pc' = [pc EXCEPT ![t] = to]
    <3>1. PICK to \in {"reading", "raised"} : pc' = [pc EXCEPT ![t] = to]
      BY <2>4
    <3>2. \A u \in NodeTypes : pc'[u] = IF u = t THEN to ELSE pc[u]
      BY <1>0, <3>1
    <3>3. /\ \A u \in NodeTypes : pc[u] = "done" => pc'[u] = "done" /\ name'[u] = name[u]
          /\ \A u \in NodeTypes : (pc'[u] = "done" /\ ~UserInput) => pc[u] = "done"
      BY <2>2, <3>1, <3>2
    <3> QED  BY <2>4, <3>3, PartitionsKept
  <2> QED  BY <2>1, <2>3, <2>4 DEF Begins, Submit, Raise
<1>3. ASSUME NEW t \in NodeTypes, BeginFails(t)  PROVE PartitionInv'
  BY <1>0, <1>3, PartitionsKept DEF BeginFails, Raise
<1>4. ASSUME NEW t \in NodeTypes, Resume(t)  PROVE PartitionInv'
  <2>1. CASE Waits(t)
    BY <1>0, <2>1, PartitionsKept DEF Waits
  <2>2. CASE Raises(t)
    <3>1. /\ \A u \in NodeTypes : pc[u] = "done" => pc'[u] = "done" /\ name'[u] = name[u]
          /\ \A u \in NodeTypes : (pc'[u] = "done" /\ ~UserInput) => pc[u] = "done"
      BY <1>0, <2>2 DEF Raises, Raise, Suspended
    <3>2. partitions' = partitions
      BY <2>2 DEF Raises
    <3> QED  BY <3>1, <3>2, PartitionsKept
  <2>3. ASSUME NEW executed \in BOOLEAN, NEW cancelled \in BOOLEAN, NEW jobs,
               AttemptEnds(t, executed, cancelled, jobs)
        PROVE  PartitionInv'
    <3>1. pc[t] # "done"
      BY <2>3 DEF AttemptEnds, Suspended
    <3>2. CASE Retries(t, jobs)
      <4>1. \A u \in NodeTypes : pc'[u] = IF u = t THEN "reading" ELSE pc[u]
        BY <1>0, <3>2 DEF Retries, Submit
      <4>2. UNCHANGED <<partitions, name>>
        BY <3>2 DEF Retries
      <4>3. /\ \A u \in NodeTypes : pc[u] = "done" => pc'[u] = "done" /\ name'[u] = name[u]
            /\ \A u \in NodeTypes : (pc'[u] = "done" /\ ~UserInput) => pc[u] = "done"
        BY <3>1, <4>1, <4>2
      <4> QED  BY <4>2, <4>3, PartitionsKept
    <3>3. CASE Ends(t, executed, jobs)
      <4> DEFINE read == IF executed /\ Wait THEN {f \in outputs : f.name = name[t]} ELSE {}
                 from == {f.node : f \in read}
      <4>1. CASE Raise(t) /\ UNCHANGED partitions
        <5>1. /\ \A u \in NodeTypes : pc[u] = "done" => pc'[u] = "done" /\ name'[u] = name[u]
              /\ \A u \in NodeTypes : (pc'[u] = "done" /\ ~UserInput) => pc[u] = "done"
          BY <1>0, <3>1, <3>3, <4>1 DEF Raise, Ends
        <5> QED  BY <4>1, <5>1, PartitionsKept
      <4>2. CASE \E opts \in SUBSET Options : AppendPartition(t, name[t], opts, from)
        <5>1. from \in SUBSET Nodes /\ name[t] \in Nat
          BY DEF TypeOK, Outputs
        <5>2. name' = name
          BY <3>3 DEF Ends
        <5> HIDE DEF from
        <5> QED  BY <3>1, <4>2, <5>1, <5>2, PartitionsAppended
      <4> QED  BY <3>3, <4>1, <4>2 DEF Ends
    <3> QED  BY <2>3, <3>2, <3>3, AttemptEndsCases
  <2> QED  BY <1>4, <2>1, <2>2, <2>3, ResumeCases
<1>5. ASSUME NEW t \in NodeTypes, NEW a \in Attempts, Slurm(t, a)  PROVE PartitionInv'
  BY <1>5, SlurmFacts, PartitionsKept DEF local
<1>6. CASE Main
  BY <1>6, PartitionsKept DEF Main, StartStatusBar, Finally, StatusBarCancelled
<1>7. CASE UNCHANGED vars
  BY <1>7, PartitionsKept DEF vars
<1> QED  BY <1>1, <1>2, <1>3, <1>4, <1>5, <1>6, <1>7 DEF Next, Coroutine, Terminated

\* No interleaving of the coroutines gives a node type two partitions, and in
\* auto mode none is left out when create_partitions returns.
THEOREM OnePartition == Spec => []OnePartitionPerType
<1>1. Init => PartitionInv
  BY DEF Init, PartitionInv
<1>2. TypeOK /\ ControlInv /\ PartitionInv => OnePartitionPerType
  <2> SUFFICES ASSUME TypeOK, ControlInv, PartitionInv  PROVE OnePartitionPerType
    OBVIOUS
  <2>1. ASSUME NEW t \in NodeTypes  PROVE Cardinality(CreatedBy(t)) <= 1
    <3>1. CASE CreatedBy(t) = {}
      <4>1. Cardinality({}) = 0
        BY FS_EmptySet
      <4> QED  BY <3>1, <4>1
    <3>2. CASE CreatedBy(t) # {}
      <4>1. PICK i \in CreatedBy(t) : TRUE
        BY <3>2
      <4>2. CreatedBy(t) = {i}
        BY <4>1 DEF CreatedBy, PartitionInv
      <4>3. Cardinality({i}) = 1
        BY FS_Singleton
      <4> QED  BY <4>2, <4>3
    <3> QED  BY <3>1, <3>2
  <2>2. (main = "finished" /\ ~UserInput) => \A t \in NodeTypes : CreatedBy(t) # {}
    BY DEF ControlInv, MainInv, AllDone, PartitionInv
  <2> QED  BY <2>1, <2>2 DEF OnePartitionPerType
<1>3. TypeOK /\ ControlInv /\ PartitionInv /\ [Next]_vars => PartitionInv'
  BY PartitionStep
<1> QED  BY TypeCorrect, <1>1, <1>2, <1>3, PTL DEF Spec

-----------------------------------------------------------------------------
(* Names. *)

\* Nothing that happens to a coroutine that has its name changes names.
LEMMA NamesKept ==
    ASSUME TypeOK, NameInv, name' = name, pn' \in Nat, pn' >= pn,
           \A t \in NodeTypes : name[t] = 0 =>
                /\ attempt'[t] = attempt[t]
                /\ \A i \in DOMAIN partitions' : partitions'[i].type # t
    PROVE  NameInv'
BY DEF TypeOK, NameInv

\* A coroutine gets a name no other one has.
LEMMA NameGiven ==
    ASSUME TypeOK, NameInv, NEW t \in NodeTypes, pn' = pn + 1,
           name' = [name EXCEPT ![t] = pn + 1],
           \A u \in NodeTypes : u # t =>
                /\ attempt'[u] = attempt[u]
                /\ name[u] = 0 => \A i \in DOMAIN partitions' : partitions'[i].type # u
    PROVE  NameInv'
<1>1. /\ pn \in Nat /\ name \in [NodeTypes -> Nat]
      /\ name'[t] = pn + 1 /\ name'[t] # 0
      /\ \A u \in NodeTypes : u # t => name'[u] = name[u]
  BY DEF TypeOK
<1>2. \A u \in NodeTypes : name[u] <= pn /\ name[u] \in Nat
  BY <1>1 DEF NameInv
<1>3. \A u \in NodeTypes : name'[u] <= pn'
  BY <1>1, <1>2
<1>4. \A u \in NodeTypes : name'[u] = 0 =>
            attempt'[u] = 0 /\ \A i \in DOMAIN partitions' : partitions'[i].type # u
  BY <1>1 DEF NameInv
<1>5. \A u, v \in NodeTypes : (name'[u] = name'[v] /\ name'[u] # 0) => u = v
  BY <1>1, <1>2 DEF NameInv
<1> QED  BY <1>3, <1>4, <1>5 DEF NameInv

\* The types of the partitions after one was appended.
LEMMA AppendedTypes ==
    ASSUME TypeOK, NEW t \in NodeTypes, NEW nm, NEW opts, NEW from,
           AppendPartition(t, nm, opts, from)
    PROVE  \A i \in DOMAIN partitions' :
                \/ i \in DOMAIN partitions /\ partitions'[i] = partitions[i]
                \/ partitions'[i] = [type |-> t, name |-> nm, access |-> opts, from |-> from]
<1> DEFINE new == [type |-> t, name |-> nm, access |-> opts, from |-> from]
<1>1. partitions \in Seq(Partitions) /\ partitions' = Append(partitions, new)
  BY DEF TypeOK, AppendPartition
<1> HIDE DEF new
<1>2. /\ DOMAIN partitions = 1..Len(partitions) /\ Len(partitions) \in Nat
      /\ DOMAIN partitions' = 1..(Len(partitions) + 1)
      /\ partitions'[Len(partitions) + 1] = new
      /\ \A i \in 1..Len(partitions) : partitions'[i] = partitions[i]
  BY <1>1
<1>3. \A i \in DOMAIN partitions' :
            (i \in DOMAIN partitions /\ partitions'[i] = partitions[i]) \/ partitions'[i] = new
  BY <1>2
<1> QED  BY <1>3 DEF new

\* One step per action of Next.
LEMMA NameStep ==
    ASSUME TypeOK, ControlInv, DefaultNames, NameInv, [Next]_vars
    PROVE  NameInv'
<1>0. /\ pn \in Nat /\ DOMAIN attempt = NodeTypes
      /\ \A u \in NodeTypes : name[u] = 0 => \A i \in DOMAIN partitions : partitions[i].type # u
  BY DEF TypeOK, NameInv
<1>1. ASSUME NEW t \in NodeTypes, Decline(t)  PROVE NameInv'
  BY <1>0, <1>1, NamesKept DEF Decline, shared
<1>2. ASSUME NEW t \in NodeTypes, Begin(t)  PROVE NameInv'
  <2>1. PICK nm \in Nat, opts \in SUBSET Options, detect \in BOOLEAN : Begins(t, nm, opts, detect)
    BY <1>2, BeginCases
  <2>2. nm = pn + 1
    BY <2>1 DEF Begins, NameChoices, DefaultNames
  <2>3. /\ pn' = pn + 1 /\ name' = [name EXCEPT ![t] = pn + 1]
        /\ \A u \in NodeTypes : u # t => attempt'[u] = attempt[u]
    BY <1>0, <2>1, <2>2 DEF Begins, Submit
  <2>4. \A u \in NodeTypes : (u # t /\ name[u] = 0) =>
            \A i \in DOMAIN partitions' : partitions'[i].type # u
    <3>1. CASE UNCHANGED partitions
      BY <1>0, <3>1
    <3>2. CASE \E more \in SUBSET Options : AppendPartition(t, nm, more, {})
      BY <1>0, <3>2, AppendedTypes
    <3> QED  BY <2>1, <3>1, <3>2 DEF Begins
  <2> QED  BY <2>3, <2>4, NameGiven
<1>3. ASSUME NEW t \in NodeTypes, BeginFails(t)  PROVE NameInv'
  <2>1. pn' = pn + 1 /\ UNCHANGED <<name, attempt, partitions>>
    BY <1>3 DEF BeginFails
  <2> QED  BY <1>0, <2>1, NamesKept
<1>4. ASSUME NEW t \in NodeTypes, Resume(t)  PROVE NameInv'
  <2>1. CASE Waits(t)
    BY <1>0, <2>1, NamesKept DEF Waits, shared
  <2>2. CASE Raises(t)
    BY <1>0, <2>2, NamesKept DEF Raises
  <2>3. ASSUME NEW executed \in BOOLEAN, NEW cancelled \in BOOLEAN, NEW jobs,
               AttemptEnds(t, executed, cancelled, jobs)
        PROVE  NameInv'
    <3>1. name[t] # 0
      BY <2>3 DEF AttemptEnds, ControlInv, SuspendInv, NameInv, Attempts
    <3>2. CASE Retries(t, jobs)
      BY <1>0, <3>1, <3>2, NamesKept DEF Retries, Submit
    <3>3. CASE Ends(t, executed, jobs)
      <4>1. UNCHANGED <<attempt, name, pn>>
        BY <3>3 DEF Ends
      <4>2. \A i \in DOMAIN partitions' :
                (i \in DOMAIN partitions /\ partitions'[i] = partitions[i]) \/ partitions'[i].type = t
        <5>1. CASE UNCHANGED partitions
          BY <5>1
        <5>2. ASSUME NEW opts, NEW from, AppendPartition(t, name[t], opts, from)
              PROVE  \A i \in DOMAIN partitions' :
                        \/ i \in DOMAIN partitions /\ partitions'[i] = partitions[i]
                        \/ partitions'[i].type = t
          BY <5>2, AppendedTypes
        <5> QED  BY <3>3, <5>1, <5>2 DEF Ends
      <4>3. \A u \in NodeTypes : name[u] = 0 => \A i \in DOMAIN partitions' : partitions'[i].type # u
        BY <1>0, <3>1, <4>2
      <4> QED  BY <1>0, <4>1, <4>3, NamesKept
    <3> QED  BY <2>3, <3>2, <3>3, AttemptEndsCases
  <2> QED  BY <1>4, <2>1, <2>2, <2>3, ResumeCases
<1>5. ASSUME NEW t \in NodeTypes, NEW a \in Attempts, Slurm(t, a)  PROVE NameInv'
  BY <1>0, <1>5, SlurmFacts, NamesKept DEF local
<1>6. CASE Main
  BY <1>0, <1>6, NamesKept DEF Main, StartStatusBar, Finally, StatusBarCancelled, shared
<1>7. CASE UNCHANGED vars
  BY <1>0, <1>7, NamesKept DEF vars
<1> QED  BY <1>1, <1>2, <1>3, <1>4, <1>5, <1>6, <1>7 DEF Next, Coroutine, Terminated

THEOREM NamesInvariant ==
    ASSUME DefaultNames
    PROVE  Spec => [](TypeOK /\ ControlInv /\ NameInv)
<1>1. Init => NameInv
  BY DEF Init, NameInv
<1>2. TypeOK /\ ControlInv /\ NameInv /\ [Next]_vars => NameInv'
  BY NameStep
<1> QED  BY TypeCorrect, <1>1, <1>2, PTL DEF Spec

\* The partitions of the configuration have different names, whatever the
\* order in which the coroutines end, when the user keeps the default names.
THEOREM NamesSafe ==
    ASSUME DefaultNames
    PROVE  Spec => []NamesUnique
<1>1. Init => PartitionInv
  BY DEF Init, PartitionInv
<1>2. TypeOK /\ ControlInv /\ PartitionInv /\ [Next]_vars => PartitionInv'
  BY PartitionStep
<1>3. TypeOK /\ NameInv /\ PartitionInv => NamesUnique
  <2> SUFFICES ASSUME TypeOK, NameInv, PartitionInv,
                      NEW i \in DOMAIN partitions, NEW j \in DOMAIN partitions,
                      partitions[i].name = partitions[j].name
               PROVE  i = j
    BY DEF NamesUnique
  <2> DEFINE t == partitions[i].type
             u == partitions[j].type
  <2>1. t \in NodeTypes /\ u \in NodeTypes
    BY PartitionTypes
  <2>2. name[t] = name[u] /\ name[t] # 0
    BY <2>1 DEF PartitionInv, NameInv
  <2>3. t = u
    BY <2>1, <2>2 DEF NameInv
  <2> QED  BY <2>3 DEF PartitionInv
<1> QED  BY TypeCorrect, NamesInvariant, <1>1, <1>2, <1>3, PTL DEF Spec

-----------------------------------------------------------------------------
(* Jobs. *)

Open(j) == j.st \in {"spawned", "pending"}

\* Only the jobs of t are started or left behind by a step of t.
LEMMA JobsOfOne ==
    ASSUME JobInv, NEW t \in NodeTypes,
           \A u \in NodeTypes : u # t =>
                /\ pc'[u] = "done" => pc[u] = "done"
                /\ attempt'[u] = attempt[u]
                /\ \A b \in Attempts : /\ Live(job'[u][b]) => Live(job[u][b])
                                       /\ Open(job'[u][b]) => Open(job[u][b]),
           attempt'[t] = 2 => ~Live(job'[t][1]),
           pc'[t] = "done" => \A a \in Attempts : ~Open(job'[t][a])
    PROVE  JobInv'
<1>1. 1 \in Attempts
  BY DEF Attempts
<1> QED  BY <1>1 DEF JobInv, Open

\* Jobs only end, and coroutines do not.
LEMMA JobsKept ==
    ASSUME JobInv, UNCHANGED attempt,
           \A u \in NodeTypes : pc'[u] = "done" => pc[u] = "done",
           \A u \in NodeTypes, b \in Attempts :
                /\ Live(job'[u][b]) => Live(job[u][b])
                /\ Open(job'[u][b]) => Open(job[u][b])
    PROVE  JobInv'
<1>1. 1 \in Attempts
  BY DEF Attempts
<1> QED  BY <1>1 DEF JobInv, Open

\* A coroutine without a job may end.
LEMMA NoJobsYet ==
    ASSUME TypeOK, ControlInv, NEW t \in NodeTypes, pc[t] = "ready"
    PROVE  attempt[t] = 0 /\ \A a \in Attempts : job[t][a].st = "none"
BY DEF ControlInv, StartInv, JobAgeInv, Attempts

\* Slurm moves jobs that have not ended, and none of them backwards.
LEMMA SlurmMoves ==
    ASSUME TypeOK, NEW t \in NodeTypes, NEW a \in Attempts, Slurm(t, a)
    PROVE  /\ Live(job[t][a])
           /\ Open(job'[t][a]) => Open(job[t][a])
<1>0. job \in [NodeTypes -> [Attempts -> Jobs]]
  BY DEF TypeOK
<1>1. CASE SbatchAccepts(t, a) \/ SbatchRejects(t, a)
  BY <1>1 DEF SbatchAccepts, SbatchRejects, Live, Open
<1>2. ASSUME NEW st \in JobStates, job' = SetState(job, t, a, st)
      PROVE  job'[t][a].st = st
  BY <1>0, <1>2, SetJobState
<1>3. CASE JobRuns(t, a)
  <2>1. PICK end \in {"completed", "failed"} : job' = SetState(job, t, a, end)
    BY <1>3 DEF JobRuns
  <2>2. end \in JobStates
    BY DEF JobStates
  <2> QED  BY <1>2, <1>3, <2>1, <2>2 DEF JobRuns, Live, Open
<1>4. CASE JobCancelled(t, a)
  <2>1. "cancelled" \in JobStates
    BY DEF JobStates
  <2> QED  BY <1>2, <1>4, <2>1 DEF JobCancelled, Live, Open
<1> QED  BY <1>1, <1>3, <1>4 DEF Slurm, Sbatch

\* The jobs of a coroutine whose attempt is over: the last one has ended, or
\* is told to, and so have those before it.
LEMMA AttemptSettled ==
    ASSUME Follows, TypeOK, ControlInv, JobInv, NEW t \in NodeTypes,
           NEW executed \in BOOLEAN, NEW cancelled \in BOOLEAN, NEW jobs,
           AttemptEnds(t, executed, cancelled, jobs)
    PROVE  /\ jobs \in [NodeTypes -> [Attempts -> Jobs]]
           /\ attempt[t] \in Attempts
           /\ \A u \in NodeTypes, b \in Attempts : /\ Live(jobs[u][b]) => Live(job[u][b])
                                                   /\ Open(jobs[u][b]) => Open(job[u][b])
           /\ \A a \in Attempts : ~Open(jobs[t][a])
           /\ ~cancelled => \A a \in Attempts : ~Live(jobs[t][a])
<1>1. /\ attempt[t] \in Attempts /\ (jobs = job \/ jobs = ScancelJob(t))
      /\ ~Open(jobs[t][attempt[t]])
      /\ ~cancelled => ~Live(jobs[t][attempt[t]])
  BY DEF AttemptEnds, ControlInv, SuspendInv, Open
<1>2. /\ jobs \in [NodeTypes -> [Attempts -> Jobs]]
      /\ \A u \in NodeTypes, b \in Attempts :
            /\ Live(jobs[u][b]) <=> Live(job[u][b])
            /\ \A st \in JobStates \ {"pending", "cancelling"} :
                    jobs[u][b].st = st <=> job[u][b].st = st
            /\ jobs[u][b].st = "pending" => job[u][b].st = "pending"
  BY <1>1, ScancelFacts
<1>3. \A u \in NodeTypes, b \in Attempts : Open(jobs[u][b]) => Open(job[u][b])
  <2>1. "spawned" \in JobStates \ {"pending", "cancelling"}
    BY DEF JobStates
  <2> QED  BY <1>2, <2>1 DEF Open
<1>4. \A a \in Attempts : a # attempt[t] => ~Live(jobs[t][a])
  <2> SUFFICES ASSUME NEW a \in Attempts, a # attempt[t]  PROVE ~Live(job[t][a])
    BY <1>2, Zenon
  <2>1. CASE attempt[t] = 2
    <3>1. a = 1
      BY <2>1 DEF Attempts
    <3> QED  BY <2>1, <3>1 DEF JobInv
  <2>2. CASE attempt[t] = 1
    <3>1. job[t][a].st = "none"
      BY <1>1, <2>2 DEF ControlInv, JobAgeInv, Attempts
    <3> QED  BY <3>1 DEF Live
  <2> QED  BY <1>1, <2>1, <2>2 DEF Attempts
<1>5. \A a \in Attempts : ~Live(jobs[t][a]) => ~Open(jobs[t][a])
  BY DEF Live, Open
<1> QED  BY <1>1, <1>2, <1>3, <1>4, <1>5

\* One step per action of Next.
LEMMA JobStep ==
    ASSUME Follows, TypeOK, ControlInv, JobInv, [Next]_vars
    PROVE  JobInv'
<1>0. /\ DOMAIN pc = NodeTypes /\ DOMAIN attempt = NodeTypes
      /\ 1 \in Attempts /\ 2 \in Attempts
      /\ job \in [NodeTypes -> [Attempts -> Jobs]]
  BY DEF TypeOK, Attempts
<1>1. ASSUME NEW t \in NodeTypes, Decline(t)  PROVE JobInv'
  <2>1. /\ attempt'[t] = 0 /\ \A a \in Attempts : ~Open(job'[t][a])
        /\ \A u \in NodeTypes : u # t => pc'[u] = pc[u] /\ attempt'[u] = attempt[u]
        /\ job' = job
    BY <1>0, <1>1, NoJobsYet DEF Decline, Open
  <2> QED  BY <2>1, JobsOfOne
<1>2. ASSUME NEW t \in NodeTypes, Begin(t)  PROVE JobInv'
  <2>1. PICK nm \in Nat, opts \in SUBSET Options, detect \in BOOLEAN : Begins(t, nm, opts, detect)
    BY <1>2, BeginCases
  <2>2. attempt[t] = 0 /\ \A a \in Attempts : job[t][a].st = "none"
    BY <2>1, NoJobsYet DEF Begins
  <2>3. CASE /\ \E more \in SUBSET Options : AppendPartition(t, nm, more, {})
             /\ UNCHANGED <<attempt, scripts, job, cwd>>
    <3>1. \A u \in NodeTypes : u # t => pc'[u] = pc[u]
      BY <1>0, <2>3 DEF AppendPartition
    <3> QED  BY <2>2, <2>3, <3>1, JobsOfOne DEF Open
  <2>4. CASE Submit(t, 1, nm, opts \cup Constraint(t), job)
    <3>1. \A u \in NodeTypes, b \in Attempts : (u # t \/ b # 1) => job'[u][b] = job[u][b]
      BY <1>0, <2>4, SubmittedJobs
    <3>2. /\ \A u \in NodeTypes : u # t => pc'[u] = pc[u] /\ attempt'[u] = attempt[u]
          /\ attempt'[t] = 1 /\ pc'[t] = "reading"
      BY <1>0, <2>4 DEF Submit
    <3> QED  BY <3>1, <3>2, JobsOfOne
  <2>5. CASE Raise(t) /\ UNCHANGED <<attempt, scripts, job, partitions>>
    <3>1. \A u \in NodeTypes : pc'[u] = "done" => pc[u] = "done"
      BY <1>0, <2>5 DEF Raise
    <3> QED  BY <2>5, <3>1, JobsKept
  <2> QED  BY <2>1, <2>3, <2>4, <2>5 DEF Begins
<1>3. ASSUME NEW t \in NodeTypes, BeginFails(t)  PROVE JobInv'
  <2>1. \A u \in NodeTypes : pc'[u] = "done" => pc[u] = "done"
    BY <1>0, <1>3 DEF BeginFails, Raise
  <2> QED  BY <1>3, <2>1, JobsKept DEF BeginFails
<1>4. ASSUME NEW t \in NodeTypes, Resume(t)  PROVE JobInv'
  <2>1. CASE Waits(t)
    <3>1. \A u \in NodeTypes : pc'[u] = "done" => pc[u] = "done"
      BY <1>0, <2>1 DEF Waits
    <3> QED  BY <2>1, <3>1, JobsKept DEF Waits
  <2>2. CASE Raises(t)
    <3>1. \A u \in NodeTypes : pc'[u] = "done" => pc[u] = "done"
      BY <1>0, <2>2 DEF Raises, Raise
    <3> QED  BY <2>2, <3>1, JobsKept DEF Raises
  <2>3. ASSUME NEW executed \in BOOLEAN, NEW cancelled \in BOOLEAN, NEW jobs,
               AttemptEnds(t, executed, cancelled, jobs)
        PROVE  JobInv'
    <3>1. /\ jobs \in [NodeTypes -> [Attempts -> Jobs]]
          /\ \A u \in NodeTypes, b \in Attempts : /\ Live(jobs[u][b]) => Live(job[u][b])
                                                  /\ Open(jobs[u][b]) => Open(job[u][b])
          /\ \A a \in Attempts : ~Open(jobs[t][a])
          /\ ~cancelled => \A a \in Attempts : ~Live(jobs[t][a])
      BY <2>3, AttemptSettled
    <3>2. CASE Retries(t, jobs) /\ ~cancelled
      <4>1. \A u \in NodeTypes, b \in Attempts : (u # t \/ b # 2) => job'[u][b] = jobs[u][b]
        <5>1. Submit(t, 2, name[t], {"part"}, jobs)
          BY <3>2 DEF Retries
        <5> QED  BY <1>0, <3>1, <5>1, SubmittedJobs
      <4>2. /\ \A u \in NodeTypes : u # t => pc'[u] = pc[u] /\ attempt'[u] = attempt[u]
            /\ pc'[t] = "reading"
        BY <1>0, <3>2 DEF Retries, Submit
      <4>3. ~Live(job'[t][1])
        BY <1>0, <3>1, <3>2, <4>1
      <4>4. \A u \in NodeTypes : u # t =>
                \A b \in Attempts : /\ Live(job'[u][b]) => Live(job[u][b])
                                    /\ Open(job'[u][b]) => Open(job[u][b])
        BY <3>1, <4>1
      <4> QED  BY <4>2, <4>3, <4>4, JobsOfOne
    <3>3. CASE Ends(t, executed, jobs)
      <4>1. /\ job' = jobs /\ attempt' = attempt
            /\ \A u \in NodeTypes : u # t => pc'[u] = pc[u]
        BY <1>0, <3>3 DEF Ends, Raise, AppendPartition
      <4>2. attempt'[t] = 2 => ~Live(job'[t][1])
        <5>1. attempt[t] = 2 => ~Live(job[t][1])
          BY DEF JobInv
        <5> QED  BY <1>0, <3>1, <4>1, <5>1
      <4> QED  BY <3>1, <4>1, <4>2, JobsOfOne
    <3> QED  BY <2>3, <3>2, <3>3, AttemptEndsCases
  <2> QED  BY <1>4, <2>1, <2>2, <2>3, ResumeCases
<1>5. ASSUME NEW t \in NodeTypes, NEW a \in Attempts, Slurm(t, a)  PROVE JobInv'
  <2>1. UNCHANGED <<pc, attempt>>
    BY <1>5, SlurmFacts DEF local
  <2>2. \A u \in NodeTypes, b \in Attempts : (u # t \/ b # a) => job'[u][b] = job[u][b]
    BY <1>5, SlurmFacts
  <2>3. Live(job[t][a]) /\ (Open(job'[t][a]) => Open(job[t][a]))
    BY <1>5, SlurmMoves
  <2>4. \A u \in NodeTypes, b \in Attempts :
                /\ Live(job'[u][b]) => Live(job[u][b])
                /\ Open(job'[u][b]) => Open(job[u][b])
    <3> TAKE u \in NodeTypes, b \in Attempts
    <3>1. CASE u = t /\ b = a
      BY <2>3, <3>1
    <3>2. CASE u # t \/ b # a
      BY <2>2, <3>2
    <3> QED  BY <3>1, <3>2
  <2> QED  BY <2>1, <2>4, JobsKept
<1>6. CASE Main
  BY <1>6, JobsKept DEF Main, StartStatusBar, Finally, StatusBarCancelled
<1>7. CASE UNCHANGED vars
  BY <1>7, JobsKept DEF vars
<1> QED  BY <1>1, <1>2, <1>3, <1>4, <1>5, <1>6, <1>7 DEF Next, Coroutine, Terminated

\* When the coroutines hear of the end of their jobs ("sbatch -W", and no first
\* line that is taken for an error), jobs that were given up have ended or were
\* cancelled.
THEOREM JobsInvariant ==
    ASSUME Follows
    PROVE  Spec => [](TypeOK /\ ControlInv /\ JobInv)
<1>1. Init => JobInv
  BY DEF Init, JobInv, NoJob, Live
<1>2. TypeOK /\ ControlInv /\ JobInv /\ [Next]_vars => JobInv'
  BY JobStep
<1> QED  BY TypeCorrect, <1>1, <1>2, PTL DEF Spec

\* When create_partitions returns and its coroutines have heard of their jobs,
\* none is left in the queue that nobody has cancelled.
THEOREM NoOrphanSafe ==
    ASSUME Follows
    PROVE  Spec => []NoOrphanJob
<1>1. TypeOK /\ ControlInv /\ JobInv => NoOrphanJob
  BY DEF ControlInv, MainInv, AllDone, JobInv, NoOrphanJob
<1> QED  BY JobsInvariant, <1>1, PTL

\* Two jobs that may still run never write one output file, when the user
\* keeps the default names and the coroutines hear of the end of their jobs.
THEOREM OneWriterSafe ==
    ASSUME Follows, DefaultNames
    PROVE  Spec => []OneWriter
<1>1. TypeOK /\ ControlInv /\ JobInv /\ NameInv => OneWriter
  <2> SUFFICES ASSUME TypeOK, ControlInv, JobInv, NameInv,
                      NEW t \in NodeTypes, NEW u \in NodeTypes,
                      NEW a \in Attempts, NEW b \in Attempts,
                      Live(job[t][a]), Live(job[u][b]), name[t] = name[u]
               PROVE  t = u /\ a = b
    BY DEF OneWriter
  <2>1. attempt[t] >= a /\ attempt[u] >= b /\ attempt[t] \in 0..2 /\ attempt[u] \in 0..2
    BY DEF Live, ControlInv, JobAgeInv, TypeOK
  <2>2. name[t] # 0
    BY <2>1 DEF NameInv, Attempts
  <2>3. t = u
    BY <2>2 DEF NameInv
  <2>4. a = b
    <3>1. attempt[t] # 2 => a = 1 /\ b = 1
      BY <2>1, <2>3 DEF Attempts
    <3>2. attempt[t] = 2 => a # 1 /\ b # 1
      BY <2>3 DEF JobInv
    <3> QED  BY <3>1, <3>2 DEF Attempts
  <2> QED  BY <2>3, <2>4
<1> QED  BY JobsInvariant, NamesInvariant, <1>1, PTL

-----------------------------------------------------------------------------
(* Files. *)

\* The job was accepted by sbatch: its type and options are those of a script.
Submitted(j) == j.st \in {"pending", "cancelling", "completed", "failed", "cancelled"}

SameJob(j, k) == j.type = k.type /\ j.opts = k.opts

\* No output file is written and no script added.
LEMMA FilesKept ==
    ASSUME TypeOK, FileInv, UNCHANGED <<scripts, outputs>>,
           \A u \in NodeTypes : name'[u] = name[u] \/ name[u] = 0,
           \A u \in NodeTypes, b \in Attempts :
                Submitted(job'[u][b]) =>
                    \/ Submitted(job[u][b]) /\ SameJob(job'[u][b], job[u][b])
                    \/ job'[u][b].type = u /\ GoodOptions(u, job'[u][b].opts),
           \A u \in NodeTypes, b \in Attempts :
                (b = attempt'[u] /\ Ran(job'[u][b])) =>
                    b = attempt[u] /\ Ran(job[u][b]) /\ name'[u] = name[u]
    PROVE  FileInv'
<1>1. \A f \in scripts : f.type \in NodeTypes
  BY DEF TypeOK, Scripts
<1>2. \A f \in outputs : f.type \in NodeTypes
  BY DEF TypeOK, Outputs
<1>3. \A f \in scripts' : f.name = name'[f.type] /\ f.name # 0 /\ GoodOptions(f.type, f.opts)
  BY <1>1 DEF FileInv
<1>4. \A u \in NodeTypes, b \in Attempts : Submitted(job'[u][b]) =>
            job'[u][b].type = u /\ GoodOptions(u, job'[u][b].opts)
  BY DEF FileInv, Submitted, SameJob
<1>5. \A f \in outputs' : /\ f.name = name'[f.type] /\ f.name # 0
                          /\ \E opts \in SUBSET Options :
                                GoodOptions(f.type, opts) /\ f.node \in Eligible(f.type, opts)
  BY <1>2 DEF FileInv
<1>6. \A f, g \in outputs' : f.name = g.name => f = g
  BY DEF FileInv
<1>7. \A u \in NodeTypes : \A b \in Attempts : (b = attempt'[u] /\ Ran(job'[u][b])) =>
            \E f \in outputs' : f.name = name'[u] /\ f.type = u /\ f.attempt = b
  BY DEF FileInv, Ran
<1> QED  BY <1>3, <1>4, <1>5, <1>6, <1>7 DEF FileInv, Submitted, Ran

\* _prepare_job and _submit_job: the script of this coroutine is replaced.
LEMMA FilesSubmitted ==
    ASSUME TypeOK, FileInv, NEW t \in NodeTypes, NEW a \in Attempts, NEW nm, NEW opts,
           NEW jobs \in [NodeTypes -> [Attempts -> Jobs]],
           Submit(t, a, nm, opts, jobs), UNCHANGED outputs,
           nm = name'[t], nm # 0, GoodOptions(t, opts),
           \A u \in NodeTypes : u # t => name'[u] = name[u],
           name'[t] = name[t] \/ name[t] = 0,
           \A u \in NodeTypes, b \in Attempts :
                /\ Submitted(jobs[u][b]) => Submitted(job[u][b]) /\ SameJob(jobs[u][b], job[u][b])
                /\ Ran(jobs[u][b]) => Ran(job[u][b])
    PROVE  FileInv'
<1> DEFINE r == [name |-> nm, type |-> t, opts |-> opts]
<1>0. \A f \in scripts : f.type \in NodeTypes
  BY DEF TypeOK, Scripts
<1>1. scripts' = Overwrite(scripts, r) /\ attempt' = [attempt EXCEPT ![t] = a] /\ DOMAIN attempt = NodeTypes
  BY DEF Submit, TypeOK
<1>2. \A f \in outputs : f.type \in NodeTypes
  BY DEF TypeOK, Outputs
<1>3. /\ job'[t][a].st = "spawned"
      /\ \A u \in NodeTypes, b \in Attempts : (u # t \/ b # a) => job'[u][b] = jobs[u][b]
  BY SubmittedJobs
<1>4. \A u \in NodeTypes, b \in Attempts :
            /\ Submitted(job'[u][b]) => Submitted(job[u][b]) /\ SameJob(job'[u][b], job[u][b])
            /\ Ran(job'[u][b]) => Ran(job[u][b])
  BY <1>3 DEF Submitted, Ran
<1>5. ASSUME NEW f \in scripts'
      PROVE  f.name = name'[f.type] /\ f.name # 0 /\ GoodOptions(f.type, f.opts)
  <2>1. CASE f = r
    BY <2>1
  <2>2. CASE f \in scripts
    BY <1>0, <2>2 DEF FileInv
  <2> HIDE DEF r
  <2> QED  BY <1>1, <2>1, <2>2 DEF Overwrite
<1>6. \A u \in NodeTypes, b \in Attempts : Submitted(job'[u][b]) =>
            job'[u][b].type = u /\ GoodOptions(u, job'[u][b].opts)
  BY <1>4 DEF FileInv, Submitted, SameJob
<1>7. \A f \in outputs' : /\ f.name = name'[f.type] /\ f.name # 0
                          /\ \E o \in SUBSET Options :
                                GoodOptions(f.type, o) /\ f.node \in Eligible(f.type, o)
  BY <1>2 DEF FileInv
<1>8. \A f, g \in outputs' : f.name = g.name => f = g
  BY DEF FileInv
<1>9. \A u \in NodeTypes : \A b \in Attempts : (b = attempt'[u] /\ Ran(job'[u][b])) =>
            \E f \in outputs' : f.name = name'[u] /\ f.type = u /\ f.attempt = b
  <2> SUFFICES ASSUME NEW u \in NodeTypes, NEW b \in Attempts, b = attempt'[u], Ran(job'[u][b])
               PROVE  \E f \in outputs : f.name = name'[u] /\ f.type = u /\ f.attempt = b
    OBVIOUS
  <2>1. u # t
    BY <1>1, <1>3 DEF Ran
  <2>2. b = attempt[u] /\ Ran(job[u][b]) /\ name'[u] = name[u]
    BY <1>1, <1>4, <2>1
  <2> QED  BY <2>2 DEF FileInv, Ran
<1> QED  BY <1>5, <1>6, <1>7, <1>8, <1>9 DEF FileInv, Submitted, Ran

\* A job runs, and leaves its file: the one other file of that name it may
\* replace is its own.
LEMMA FilesWritten ==
    ASSUME TypeOK, ControlInv, JobInv, NameInv, FileInv,
           NEW t \in NodeTypes, NEW a \in Attempts, JobRuns(t, a)
    PROVE  FileInv'
<1>0. /\ job \in [NodeTypes -> [Attempts -> Jobs]] /\ Live(job[t][a]) /\ Submitted(job[t][a])
      /\ UNCHANGED <<scripts, name, attempt>>
  BY DEF TypeOK, JobRuns, Live, Submitted, local
<1>1. PICK n \in Eligible(job[t][a].type, job[t][a].opts), end \in {"completed", "failed"} :
        /\ job' = SetState(job, t, a, end)
        /\ outputs' = Overwrite(outputs, [name |-> name[t], type |-> t, attempt |-> a, node |-> n])
  BY DEF JobRuns
<1> DEFINE r == [name |-> name[t], type |-> t, attempt |-> a, node |-> n]
<1>2. end \in JobStates
  BY DEF JobStates
<1>3. /\ job'[t][a].st = end /\ SameJob(job'[t][a], job[t][a])
      /\ \A u \in NodeTypes, b \in Attempts : (u # t \/ b # a) => job'[u][b] = job[u][b]
  <2>1. SetState(job, t, a, end)[t][a].st = end
    BY <1>0, <1>2, SetJobState
  <2>2. SetState(job, t, a, end)[t][a].type = job[t][a].type
    BY <1>0, <1>2, SetJobState
  <2>3. SetState(job, t, a, end)[t][a].opts = job[t][a].opts
    BY <1>0, <1>2, SetJobState
  <2>4. \A u \in NodeTypes, b \in Attempts : (u # t \/ b # a) => SetState(job, t, a, end)[u][b] = job[u][b]
    BY <1>0, <1>2, SetJobState
  <2> QED  BY <1>1, <2>1, <2>2, <2>3, <2>4 DEF SameJob
<1>4. job[t][a].type = t /\ GoodOptions(t, job[t][a].opts) /\ job[t][a].opts \in SUBSET Options
  <2>1. job[t][a] \in Jobs
    BY <1>0
  <2>2. job[t][a].opts \in SUBSET Options
    BY <2>1 DEF Jobs
  <2> QED  BY <1>0, <2>2 DEF FileInv, Submitted
<1>5. attempt[t] \in Attempts /\ a <= attempt[t] /\ name[t] # 0
  BY <1>0 DEF ControlInv, JobAgeInv, Live, NameInv, TypeOK, Attempts
<1>6. outputs' = Overwrite(outputs, r) /\ r.name = name[t] /\ r.type = t /\ r.attempt = a /\ r.node = n
  BY <1>1
<1> HIDE DEF r
<1>7. \A f \in outputs : f.type \in NodeTypes
  BY DEF TypeOK, Outputs
<1>8. \A f \in outputs' : /\ f.name = name[f.type] /\ f.name # 0
                          /\ \E opts \in SUBSET Options :
                                GoodOptions(f.type, opts) /\ f.node \in Eligible(f.type, opts)
  <2> SUFFICES ASSUME NEW f \in outputs'
               PROVE  /\ f.name = name[f.type] /\ f.name # 0
                      /\ \E opts \in SUBSET Options :
                            GoodOptions(f.type, opts) /\ f.node \in Eligible(f.type, opts)
    OBVIOUS
  <2>1. CASE f = r
    BY <1>1, <1>4, <1>5, <1>6, <2>1
  <2>2. CASE f \in outputs
    BY <2>2 DEF FileInv
  <2> QED  BY <1>6, <2>1, <2>2 DEF Overwrite
<1>9. \A f, g \in outputs' : f.name = g.name => f = g
  BY <1>6 DEF FileInv, Overwrite
<1>10. \A u \in NodeTypes, b \in Attempts : Submitted(job'[u][b]) =>
            job'[u][b].type = u /\ GoodOptions(u, job'[u][b].opts)
  <2> SUFFICES ASSUME NEW u \in NodeTypes, NEW b \in Attempts, Submitted(job'[u][b])
               PROVE  job'[u][b].type = u /\ GoodOptions(u, job'[u][b].opts)
    OBVIOUS
  <2>1. CASE u = t /\ b = a
    BY <1>3, <1>4, <2>1 DEF SameJob
  <2>2. CASE u # t \/ b # a
    BY <1>3, <2>2 DEF FileInv, Submitted
  <2> QED  BY <2>1, <2>2
<1>11. \A u \in NodeTypes : \A b \in Attempts : (b = attempt[u] /\ Ran(job'[u][b])) =>
            \E f \in outputs' : f.name = name[u] /\ f.type = u /\ f.attempt = b
  <2> SUFFICES ASSUME NEW u \in NodeTypes, NEW b \in Attempts, b = attempt[u], Ran(job'[u][b])
               PROVE  \E f \in outputs' : f.name = name[u] /\ f.type = u /\ f.attempt = b
    OBVIOUS
  <2>1. CASE u = t /\ b = a
    BY <1>6, <2>1 DEF Overwrite
  <2>2. CASE u = t /\ b # a
    <3>1. a = 1 /\ attempt[t] = 2
      BY <1>5, <2>2 DEF Attempts
    <3> QED  BY <1>0, <3>1 DEF JobInv
  <2>3. CASE u # t
    <3>1. PICK f \in outputs : f.name = name[u] /\ f.type = u /\ f.attempt = b
      BY <1>3, <2>3 DEF FileInv, Ran
    <3>2. name[u] # name[t]
      BY <1>5, <2>3 DEF NameInv
    <3> QED  BY <1>6, <3>1, <3>2 DEF Overwrite
  <2> QED  BY <2>1, <2>2, <2>3
<1>12. \A f \in scripts' : f.name = name'[f.type] /\ f.name # 0 /\ GoodOptions(f.type, f.opts)
  BY <1>0 DEF FileInv
<1> QED  BY <1>0, <1>8, <1>9, <1>10, <1>11, <1>12 DEF FileInv, Submitted, Ran

\* The jobs after the cancellation of a late one are as they were accepted.
LEMMA ScancelFiles ==
    ASSUME TypeOK, NEW t \in NodeTypes, attempt[t] \in Attempts,
           NEW jobs, jobs = job \/ jobs = ScancelJob(t)
    PROVE  \A u \in NodeTypes, b \in Attempts :
                /\ Submitted(jobs[u][b]) => Submitted(job[u][b]) /\ SameJob(jobs[u][b], job[u][b])
                /\ Ran(jobs[u][b]) => Ran(job[u][b])
<1> SUFFICES ASSUME NEW u \in NodeTypes, NEW b \in Attempts
             PROVE  /\ Submitted(jobs[u][b]) => Submitted(job[u][b]) /\ SameJob(jobs[u][b], job[u][b])
                    /\ Ran(jobs[u][b]) => Ran(job[u][b])
  OBVIOUS
<1>1. /\ jobs[u][b].type = job[u][b].type /\ jobs[u][b].opts = job[u][b].opts
      /\ \A st \in JobStates \ {"pending", "cancelling"} : jobs[u][b].st = st <=> job[u][b].st = st
  BY ScancelFacts
<1>2. job[u][b].st \in JobStates
  <2>1. job[u][b] \in Jobs
    BY DEF TypeOK
  <2> QED  BY <2>1 DEF Jobs
<1> QED  BY <1>1, <1>2 DEF Submitted, SameJob, Ran, JobStates

\* One step per action of Next.
LEMMA FileStep ==
    ASSUME Follows, DefaultNames, TypeOK, ControlInv, JobInv, NameInv, FileInv, [Next]_vars
    PROVE  FileInv'
<1>0. /\ DOMAIN pc = NodeTypes /\ DOMAIN name = NodeTypes /\ DOMAIN attempt = NodeTypes
      /\ 1 \in Attempts /\ 2 \in Attempts
      /\ job \in [NodeTypes -> [Attempts -> Jobs]]
  BY DEF TypeOK, Attempts
<1>1. ASSUME NEW t \in NodeTypes, Decline(t)  PROVE FileInv'
  BY <1>1, FilesKept DEF Decline, files, SameJob
<1>2. ASSUME NEW t \in NodeTypes, Begin(t)  PROVE FileInv'
  <2>1. PICK nm \in Nat, opts \in SUBSET Options, detect \in BOOLEAN : Begins(t, nm, opts, detect)
    BY <1>2, BeginCases
  <2>2. /\ attempt[t] = 0 /\ name[t] = 0 /\ pn \in Nat
        /\ \A a \in Attempts : job[t][a].st = "none"
    BY <2>1, NoJobsYet DEF Begins, ControlInv, StartInv, TypeOK
  <2>3. nm = pn + 1 /\ nm # 0
    BY <2>1, <2>2 DEF Begins, NameChoices, DefaultNames
  <2>4. /\ name'[t] = nm /\ \A u \in NodeTypes : u # t => name'[u] = name[u]
        /\ UNCHANGED outputs
    BY <1>0, <2>1 DEF Begins
  <2>5. CASE UNCHANGED <<attempt, scripts, job>>
    <3>1. \A u \in NodeTypes, b \in Attempts : Ran(job[u][b]) => name'[u] = name[u]
      BY <2>2, <2>4 DEF Ran
    <3>2. \A u \in NodeTypes : name'[u] = name[u] \/ name[u] = 0
      BY <2>2, <2>4
    <3> QED  BY <2>4, <2>5, <3>1, <3>2, FilesKept DEF SameJob
  <2>6. CASE Submit(t, 1, nm, opts \cup Constraint(t), job)
    <3>1. GoodOptions(t, opts \cup Constraint(t))
      BY <2>1 DEF Begins, GoodOptions, Constraint
    <3> DEFINE o == opts \cup Constraint(t)
    <3>2. GoodOptions(t, o) /\ Submit(t, 1, nm, o, job)
      BY <2>6, <3>1
    <3> HIDE DEF o
    <3> QED  BY <1>0, <2>2, <2>3, <2>4, <3>2, FilesSubmitted DEF SameJob
  <2> QED  BY <2>1, <2>5, <2>6 DEF Begins
<1>3. ASSUME NEW t \in NodeTypes, BeginFails(t)  PROVE FileInv'
  BY <1>3, FilesKept DEF BeginFails, files, SameJob
<1>4. ASSUME NEW t \in NodeTypes, Resume(t)  PROVE FileInv'
  <2>1. CASE Waits(t)
    BY <2>1, FilesKept DEF Waits, files, SameJob
  <2>2. CASE Raises(t)
    BY <2>2, FilesKept DEF Raises, files, SameJob
  <2>3. ASSUME NEW executed \in BOOLEAN, NEW cancelled \in BOOLEAN, NEW jobs,
               AttemptEnds(t, executed, cancelled, jobs)
        PROVE  FileInv'
    <3>1. attempt[t] \in Attempts /\ (jobs = job \/ jobs = ScancelJob(t))
      BY <2>3 DEF AttemptEnds, ControlInv, SuspendInv
    <3>2. /\ jobs \in [NodeTypes -> [Attempts -> Jobs]]
          /\ \A u \in NodeTypes, b \in Attempts :
                /\ Submitted(jobs[u][b]) => Submitted(job[u][b]) /\ SameJob(jobs[u][b], job[u][b])
                /\ Ran(jobs[u][b]) => Ran(job[u][b])
      BY <3>1, ScancelFacts, ScancelFiles
    <3>3. CASE Retries(t, jobs)
      <4>1. /\ Submit(t, 2, name[t], {"part"}, jobs) /\ HasAccessPartition(t)
            /\ UNCHANGED <<name, outputs>>
        BY <3>3 DEF Retries
      <4>2. GoodOptions(t, {"part"}) /\ name[t] # 0
        BY <3>1, <4>1 DEF GoodOptions, NameInv, Attempts
      <4> QED  BY <1>0, <3>2, <4>1, <4>2, FilesSubmitted
    <3>4. CASE Ends(t, executed, jobs)
      BY <3>2, <3>4, FilesKept DEF Ends
    <3> QED  BY <2>3, <3>3, <3>4, AttemptEndsCases
  <2> QED  BY <1>4, <2>1, <2>2, <2>3, ResumeCases
<1>5. ASSUME NEW t \in NodeTypes, NEW a \in Attempts, Slurm(t, a)  PROVE FileInv'
  <2>0. /\ UNCHANGED <<name, attempt, scripts>>
        /\ \A u \in NodeTypes, b \in Attempts : (u # t \/ b # a) => job'[u][b] = job[u][b]
    BY <1>5, SlurmFacts DEF local
  <2>1. ASSUME UNCHANGED outputs, ~Ran(job'[t][a]),
               \/ ~Submitted(job'[t][a])
               \/ Submitted(job[t][a]) /\ SameJob(job'[t][a], job[t][a])
               \/ job'[t][a].type = t /\ GoodOptions(t, job'[t][a].opts)
        PROVE  FileInv'
    <3>1. \A u \in NodeTypes, b \in Attempts :
              Submitted(job'[u][b]) =>
                  \/ Submitted(job[u][b]) /\ SameJob(job'[u][b], job[u][b])
                  \/ job'[u][b].type = u /\ GoodOptions(u, job'[u][b].opts)
      BY <2>0, <2>1 DEF SameJob
    <3>2. \A u \in NodeTypes, b \in Attempts : Ran(job'[u][b]) => Ran(job[u][b])
      BY <2>0, <2>1
    <3> QED  BY <2>0, <2>1, <3>1, <3>2, FilesKept
  <2>2. CASE SbatchAccepts(t, a)
    <3>1. PICK f \in scripts :
            /\ f.name = name[t]
            /\ job' = [job EXCEPT ![t][a] = [st |-> "pending", type |-> f.type, opts |-> f.opts]]
      BY <2>2 DEF SbatchAccepts
    <3>2. job'[t][a] = [st |-> "pending", type |-> f.type, opts |-> f.opts]
      BY <1>0, <3>1
    <3>3. f.type \in NodeTypes
      BY DEF TypeOK, Scripts
    <3>4. f.type = t /\ GoodOptions(t, f.opts)
      BY <3>1, <3>3 DEF FileInv, NameInv
    <3> QED  BY <2>1, <2>2, <3>2, <3>4 DEF SbatchAccepts, Ran
  <2>3. ASSUME NEW st \in JobStates, job' = SetState(job, t, a, st)
        PROVE  job'[t][a].st = st /\ SameJob(job'[t][a], job[t][a])
    <3>1. SetState(job, t, a, st)[t][a].st = st
      BY <1>0, SetJobState
    <3>2. SetState(job, t, a, st)[t][a].type = job[t][a].type
      BY <1>0, SetJobState
    <3>3. SetState(job, t, a, st)[t][a].opts = job[t][a].opts
      BY <1>0, SetJobState
    <3> QED  BY <2>3, <3>1, <3>2, <3>3 DEF SameJob
  <2>4. CASE SbatchRejects(t, a)
    <3>1. "rejected" \in JobStates
      BY DEF JobStates
    <3> QED  BY <2>1, <2>3, <2>4, <3>1 DEF SbatchRejects, Ran, Submitted
  <2>5. CASE JobRuns(t, a)
    BY <2>5, FilesWritten
  <2>6. CASE JobCancelled(t, a)
    <3>1. "cancelled" \in JobStates
      BY DEF JobStates
    <3> QED  BY <2>1, <2>3, <2>6, <3>1 DEF JobCancelled, Ran, Submitted
  <2> QED  BY <1>5, <2>2, <2>4, <2>5, <2>6 DEF Slurm, Sbatch
<1>6. CASE Main
  BY <1>6, FilesKept DEF Main, StartStatusBar, Finally, StatusBarCancelled, files, SameJob
<1>7. CASE UNCHANGED vars
  BY <1>7, FilesKept DEF vars, SameJob
<1> QED  BY <1>1, <1>2, <1>3, <1>4, <1>5, <1>6, <1>7 DEF Next, Coroutine, Terminated

\* If the coroutines hear of their jobs and the user keeps the default names, the
\* scripts, the jobs and the output files belong to the coroutines they are named after.
THEOREM FilesInvariant ==
    ASSUME Follows, DefaultNames
    PROVE  Spec => [](TypeOK /\ ControlInv /\ JobInv /\ NameInv /\ FileInv)
<1>1. Init => FileInv
  BY DEF Init, FileInv, NoJob, Attempts
<1>2. TypeOK /\ ControlInv /\ JobInv /\ NameInv /\ FileInv /\ [Next]_vars => FileInv'
  BY FileStep
<1> QED  BY JobsInvariant, NamesInvariant, <1>1, <1>2, PTL DEF Spec

-----------------------------------------------------------------------------
(* What the partitions were filled with. *)

\* The partition p was filled from the output file of its type's last job.
OwnFile(p, jobs, at, outs) ==
    /\ jobs[p.type][at[p.type]].st = "completed"
    /\ \E f \in outs : /\ f.name = p.name
                       /\ f.type = p.type /\ f.attempt = at[p.type]
                       /\ p.from = {f.node}

\* The last job and the output file of a coroutine that has ended stay.
LEMMA ReadsKept ==
    ASSUME TypeOK, PartitionInv, ReadsOwnJob,
           \A i \in DOMAIN partitions' :
                \/ i \in DOMAIN partitions /\ partitions'[i] = partitions[i]
                \/ partitions'[i].from = {}
                \/ OwnFile(partitions'[i], job', attempt', outputs'),
           \A u \in NodeTypes : (pc[u] = "done" /\ job[u][attempt[u]].st = "completed") =>
                /\ attempt'[u] = attempt[u] /\ job'[u][attempt[u]].st = "completed"
                /\ \A f \in outputs : f.name = name[u] => f \in outputs'
    PROVE  ReadsOwnJob'
<1> SUFFICES ASSUME NEW i \in DOMAIN partitions', partitions'[i].from # {}
             PROVE  OwnFile(partitions'[i], job', attempt', outputs')
  BY DEF ReadsOwnJob, OwnFile
<1>1. CASE i \in DOMAIN partitions /\ partitions'[i] = partitions[i]
  <2> DEFINE p == partitions[i]
  <2>1. p.type \in NodeTypes /\ pc[p.type] = "done" /\ p.name = name[p.type]
    BY <1>1, PartitionTypes DEF PartitionInv
  <2>2. job[p.type][attempt[p.type]].st = "completed"
    BY <1>1 DEF ReadsOwnJob
  <2>3. PICK f \in outputs : /\ f.name = p.name
                             /\ f.type = p.type /\ f.attempt = attempt[p.type]
                             /\ p.from = {f.node}
    BY <1>1 DEF ReadsOwnJob
  <2>4. /\ attempt'[p.type] = attempt[p.type] /\ job'[p.type][attempt[p.type]].st = "completed"
        /\ f \in outputs'
    BY <2>1, <2>2, <2>3
  <2> HIDE DEF p
  <2>5. p = partitions'[i]
    BY <1>1 DEF p
  <2> QED  BY <2>3, <2>4, <2>5 DEF OwnFile
<1> QED  BY <1>1

\* A coroutine appends a partition without a job.
LEMMA PlainAppended ==
    ASSUME TypeOK, PartitionInv, ReadsOwnJob, NEW t \in NodeTypes, NEW nm, NEW opts,
           AppendPartition(t, nm, opts, {}), UNCHANGED <<attempt, job, outputs>>
    PROVE  ReadsOwnJob'
<1>1. \A i \in DOMAIN partitions' :
            \/ i \in DOMAIN partitions /\ partitions'[i] = partitions[i]
            \/ partitions'[i].from = {}
  BY AppendedTypes
<1> QED  BY <1>1, ReadsKept

\* A coroutine whose attempt is over: it read the file of that attempt.
LEMMA FileRead ==
    ASSUME Follows, TypeOK, ControlInv, NameInv, FileInv, PartitionInv, ReadsOwnJob,
           NEW t \in NodeTypes, NEW executed \in BOOLEAN, NEW cancelled \in BOOLEAN,
           NEW jobs, AttemptEnds(t, executed, cancelled, jobs), Ends(t, executed, jobs)
    PROVE  ReadsOwnJob'
<1> DEFINE read == IF executed /\ Wait THEN {f \in outputs : f.name = name[t]} ELSE {}
           from == {f.node : f \in read}
<1>1. /\ attempt[t] \in Attempts /\ (jobs = job \/ jobs = ScancelJob(t))
      /\ executed => jobs = job /\ job[t][attempt[t]].st = "completed"
      /\ job' = jobs /\ UNCHANGED <<attempt, name, outputs>>
  BY DEF AttemptEnds, Ends, ControlInv, SuspendInv, Follows
<1>2. \A u \in NodeTypes : (pc[u] = "done" /\ job[u][attempt[u]].st = "completed") =>
            job'[u][attempt[u]].st = "completed"
  <2> SUFFICES ASSUME NEW u \in NodeTypes, u # t  PROVE jobs[u] = job[u]
    BY <1>1 DEF AttemptEnds, Suspended
  <2>1. job \in [NodeTypes -> [Attempts -> Jobs]]
    BY DEF TypeOK
  <2> QED  BY <1>1, <2>1 DEF ScancelJob, SetState
<1>3. CASE UNCHANGED partitions
  BY <1>1, <1>2, <1>3, ReadsKept
<1>4. CASE \E opts \in SUBSET Options : AppendPartition(t, name[t], opts, from)
  <2>1. PICK opts \in SUBSET Options : AppendPartition(t, name[t], opts, from)
    BY <1>4
  <2> DEFINE p == [type |-> t, name |-> name[t], access |-> opts, from |-> from]
  <2>2. CASE executed
    <3>1. PICK f \in outputs : f.name = name[t] /\ f.type = t /\ f.attempt = attempt[t]
      BY <1>1, <2>2 DEF FileInv
    <3>2. from = {f.node}
      BY <2>2, <3>1 DEF FileInv, Follows
    <3>3. OwnFile(p, job', attempt', outputs')
      BY <1>1, <2>2, <3>1, <3>2 DEF OwnFile
    <3> HIDE DEF from
    <3>4. \A i \in DOMAIN partitions' :
                (i \in DOMAIN partitions /\ partitions'[i] = partitions[i]) \/ partitions'[i] = p
      BY <2>1, AppendedTypes
    <3> HIDE DEF p
    <3>5. \A i \in DOMAIN partitions' :
                \/ i \in DOMAIN partitions /\ partitions'[i] = partitions[i]
                \/ OwnFile(partitions'[i], job', attempt', outputs')
      BY <3>3, <3>4 DEF OwnFile
    <3> QED  BY <1>1, <1>2, <3>5, ReadsKept
  <2>3. CASE ~executed
    <3>1. from = {}
      BY <2>3
    <3> HIDE DEF from
    <3>2. \A i \in DOMAIN partitions' :
                \/ i \in DOMAIN partitions /\ partitions'[i] = partitions[i]
                \/ partitions'[i].from = {}
      BY <2>1, <3>1, AppendedTypes
    <3> QED  BY <1>1, <1>2, <3>2, ReadsKept
  <2> QED  BY <2>2, <2>3
<1> QED  BY <1>3, <1>4 DEF Ends

\* One step per action of Next.
LEMMA ReadStep ==
    ASSUME Follows, DefaultNames, TypeOK, ControlInv, PartitionInv, JobInv, NameInv, FileInv,
           ReadsOwnJob, [Next]_vars
    PROVE  ReadsOwnJob'
<1>0. /\ DOMAIN pc = NodeTypes /\ DOMAIN attempt = NodeTypes
      /\ 1 \in Attempts /\ 2 \in Attempts
      /\ job \in [NodeTypes -> [Attempts -> Jobs]]
  BY DEF TypeOK, Attempts
<1>1. ASSUME UNCHANGED <<partitions, attempt, job, outputs>>  PROVE ReadsOwnJob'
  BY <1>1, ReadsKept
<1>2. ASSUME NEW t \in NodeTypes, Decline(t)  PROVE ReadsOwnJob'
  BY <1>1, <1>2 DEF Decline, files
<1>3. ASSUME NEW t \in NodeTypes, pc[t] # "done", NEW a \in Attempts, NEW nm, NEW opts,
             NEW jobs \in [NodeTypes -> [Attempts -> Jobs]], Submit(t, a, nm, opts, jobs),
             \A u \in NodeTypes : u # t => jobs[u] = job[u],
             UNCHANGED <<partitions, outputs>>
      PROVE  ReadsOwnJob'
  <2>1. \A u \in NodeTypes : u # t => job'[u] = job[u] /\ attempt'[u] = attempt[u]
    BY <1>0, <1>3 DEF Submit, SetState
  <2> QED  BY <1>3, <2>1, ReadsKept
<1>4. ASSUME NEW t \in NodeTypes, Begin(t)  PROVE ReadsOwnJob'
  <2>1. PICK nm \in Nat, opts \in SUBSET Options, detect \in BOOLEAN : Begins(t, nm, opts, detect)
    BY <1>4, BeginCases
  <2>2. pc[t] # "done" /\ UNCHANGED outputs
    BY <2>1 DEF Begins
  <2>3. CASE /\ \E more \in SUBSET Options : AppendPartition(t, nm, more, {})
             /\ UNCHANGED <<attempt, scripts, job, cwd>>
    BY <2>2, <2>3, PlainAppended
  <2>4. CASE Submit(t, 1, nm, opts \cup Constraint(t), job) /\ UNCHANGED partitions
    BY <1>0, <1>3, <2>2, <2>4
  <2>5. CASE UNCHANGED <<attempt, scripts, job, partitions>>
    BY <1>1, <2>2, <2>5
  <2> QED  BY <2>1, <2>3, <2>4, <2>5 DEF Begins
<1>5. ASSUME NEW t \in NodeTypes, BeginFails(t)  PROVE ReadsOwnJob'
  BY <1>1, <1>5 DEF BeginFails, files
<1>6. ASSUME NEW t \in NodeTypes, Resume(t)  PROVE ReadsOwnJob'
  <2>1. CASE Waits(t) \/ Raises(t)
    BY <1>1, <2>1 DEF Waits, Raises, files
  <2>2. ASSUME NEW executed \in BOOLEAN, NEW cancelled \in BOOLEAN, NEW jobs,
               AttemptEnds(t, executed, cancelled, jobs)
        PROVE  ReadsOwnJob'
    <3>1. /\ attempt[t] \in Attempts /\ (jobs = job \/ jobs = ScancelJob(t)) /\ pc[t] # "done"
      BY <2>2 DEF AttemptEnds, ControlInv, SuspendInv, Suspended
    <3>2. CASE Retries(t, jobs)
      <4>1. \A u \in NodeTypes : u # t => jobs[u] = job[u]
        BY <1>0, <3>1 DEF ScancelJob, SetState
      <4>2. jobs \in [NodeTypes -> [Attempts -> Jobs]]
        BY <3>1, ScancelFacts
      <4> QED  BY <1>0, <1>3, <3>1, <3>2, <4>1, <4>2 DEF Retries
    <3>3. CASE Ends(t, executed, jobs)
      BY <2>2, <3>3, FileRead
    <3> QED  BY <2>2, <3>2, <3>3, AttemptEndsCases
  <2> QED  BY <1>6, <2>1, <2>2, ResumeCases
<1>7. ASSUME NEW t \in NodeTypes, NEW a \in Attempts, Slurm(t, a)  PROVE ReadsOwnJob'
  <2>1. /\ Live(job[t][a]) /\ UNCHANGED <<partitions, attempt, name, pc>>
        /\ \A u \in NodeTypes, b \in Attempts : (u # t \/ b # a) => job'[u][b] = job[u][b]
    BY <1>7, SlurmMoves, SlurmFacts DEF local
  <2>2. ASSUME NEW u \in NodeTypes, pc[u] = "done", job[u][attempt[u]].st = "completed",
               attempt[u] \in Attempts
        PROVE  /\ job'[u][attempt[u]].st = "completed"
               /\ \A f \in outputs : f.name = name[u] => f \in outputs'
    <3>1. u # t
      <4> SUFFICES ASSUME u = t  PROVE FALSE
        OBVIOUS
      <4>1. a # attempt[t] /\ a <= attempt[t]
        BY <2>1, <2>2 DEF Live, ControlInv, JobAgeInv
      <4>2. a = 1 /\ attempt[t] = 2
        BY <2>2, <4>1 DEF Attempts
      <4> QED  BY <2>1, <4>2 DEF JobInv
    <3>2. CASE UNCHANGED outputs
      BY <2>1, <2>2, <3>1, <3>2
    <3>3. CASE \E r : outputs' = Overwrite(outputs, r) /\ r.name = name[t]
      <4>1. name[u] # 0
        BY <2>2 DEF NameInv, Attempts
      <4>2. name[u] # name[t]
        BY <3>1, <4>1 DEF NameInv
      <4> QED  BY <2>1, <2>2, <3>1, <3>3, <4>2 DEF Overwrite
    <3>4. UNCHANGED outputs \/ \E r : outputs' = Overwrite(outputs, r) /\ r.name = name[t]
      <4>1. ASSUME JobRuns(t, a)
            PROVE  \E r : outputs' = Overwrite(outputs, r) /\ r.name = name[t]
        <5>1. PICK n : outputs' = Overwrite(outputs, [name |-> name[t], type |-> t,
                                                      attempt |-> a, node |-> n])
          BY <4>1 DEF JobRuns
        <5>2. [name |-> name[t], type |-> t, attempt |-> a, node |-> n].name = name[t]
          OBVIOUS
        <5> QED  BY <5>1, <5>2
      <4> QED  BY <1>7, <4>1 DEF Slurm, Sbatch, SbatchAccepts, SbatchRejects, JobCancelled
    <3> QED  BY <3>2, <3>3, <3>4
  <2>3. ASSUME NEW i \in DOMAIN partitions, partitions[i].from # {}
        PROVE  attempt[partitions[i].type] \in Attempts
    <3>1. PICK f \in outputs : f.attempt = attempt[partitions[i].type]
      BY <2>3 DEF ReadsOwnJob
    <3> QED  BY <3>1 DEF TypeOK, Outputs
  <2> SUFFICES ASSUME NEW i \in DOMAIN partitions', partitions'[i].from # {}
               PROVE  OwnFile(partitions'[i], job', attempt', outputs')
    BY DEF ReadsOwnJob, OwnFile
  <2> DEFINE p == partitions[i]
  <2>4. /\ i \in DOMAIN partitions /\ p.from # {} /\ p = partitions'[i]
        /\ p.type \in NodeTypes /\ pc[p.type] = "done" /\ p.name = name[p.type]
        /\ attempt[p.type] \in Attempts
    BY <2>1, <2>3, PartitionTypes DEF PartitionInv
  <2>5. OwnFile(p, job, attempt, outputs)
    BY <2>4 DEF ReadsOwnJob, OwnFile
  <2> HIDE DEF p
  <2> QED  BY <2>1, <2>2, <2>4, <2>5 DEF OwnFile
<1>8. CASE Main
  BY <1>1, <1>8 DEF Main, StartStatusBar, Finally, StatusBarCancelled, files
<1>9. CASE UNCHANGED vars
  BY <1>1, <1>9 DEF vars, files
<1> QED  BY <1>2, <1>4, <1>5, <1>6, <1>7, <1>8, <1>9 DEF Next, Coroutine, Terminated

\* On a homogeneous cluster a job is never placed on a node of another type.
LEMMA EligibleHomogeneous ==
    ASSUME Homogeneous, NEW t \in NodeTypes, NEW opts, GoodOptions(t, opts),
           NEW n \in Eligible(t, opts)
    PROVE  n \in NodesOfType(t)
<1>1. n \in Nodes
  BY DEF Eligible
<1>2. CASE opts = {"part"}
  BY <1>1, <1>2 DEF Eligible, Homogeneous, NodesOfType
<1>3. CASE Constraint(t) \subseteq opts /\ "part" \notin opts
  BY <1>1, <1>3 DEF Eligible, Homogeneous, NodesOfType, Constraint, Matching
<1> QED  BY <1>2, <1>3 DEF GoodOptions

\* If the coroutines hear of their jobs and keep the default names, a coroutine reads its own file, and
\* the files keep their owners.
THEOREM ReadsInvariant ==
    ASSUME Follows, DefaultNames
    PROVE  Spec => [](TypeOK /\ FileInv /\ PartitionInv /\ ReadsOwnJob)
<1>1. Init => PartitionInv /\ ReadsOwnJob
  BY DEF Init, PartitionInv, ReadsOwnJob
<1>2. /\ TypeOK /\ ControlInv /\ JobInv /\ NameInv /\ FileInv
      /\ PartitionInv /\ ReadsOwnJob /\ [Next]_vars
      => PartitionInv' /\ ReadsOwnJob'
  BY PartitionStep, ReadStep
<1> QED  BY FilesInvariant, <1>1, <1>2, PTL DEF Spec

\* Whatever the interleaving of the coroutines and of their jobs, a partition is
\* filled from the file its own last job wrote, and no other job has written
\* there since.
THEOREM ReadsSafe ==
    ASSUME Follows, DefaultNames
    PROVE  Spec => []ReadsOwnJob
BY ReadsInvariant, PTL

\* What holds of a partition that was filled follows from who owns the files.
LEMMA OwnTypes ==
    ASSUME TypeOK, FileInv, ReadsOwnJob
    PROVE  DetectedOnOwnTypeIfHomogeneous
<1> SUFFICES ASSUME Homogeneous, NEW i \in DOMAIN partitions, NEW n \in partitions[i].from
             PROVE  n \in NodesOfType(partitions[i].type)
  BY DEF DetectedOnOwnTypeIfHomogeneous, DetectedOnOwnType
<1>1. PICK f \in outputs : f.type = partitions[i].type /\ partitions[i].from = {f.node}
  BY DEF ReadsOwnJob
<1>2. f.type \in NodeTypes /\ n = f.node
  BY <1>1 DEF TypeOK, Outputs
<1>3. PICK opts \in SUBSET Options : GoodOptions(f.type, opts) /\ f.node \in Eligible(f.type, opts)
  BY DEF FileInv
<1> QED  BY <1>1, <1>2, <1>3, EligibleHomogeneous

\* On every homogeneous cluster the devices and containers of a partition are
\* those of a node of its own type, whichever of its two attempts succeeded.
THEOREM OwnTypeSafe ==
    ASSUME Follows, DefaultNames
    PROVE  Spec => []DetectedOnOwnTypeIfHomogeneous
<1>1. TypeOK /\ FileInv /\ ReadsOwnJob => DetectedOnOwnTypeIfHomogeneous
  BY OwnTypes
<1> QED  BY ReadsInvariant, <1>1, PTL

-----------------------------------------------------------------------------
(* RemoteDetect implements PartitionDetection: every step of the detection *)
(* settles one node type, ends the detection, or changes nothing that      *)
(* build_config can see.                                                   *)

-----------------------------------------------------------------------------
(* Why a coroutine may raise. *)

CanRaise == CommandsFail \/ RelativePrefix \/ Banner

\* No job runs in this step.
LEMMA RaisesKept ==
    ASSUME RaiseInv, UNCHANGED outputs,
           \A u \in NodeTypes : pc'[u] = "raised" => pc[u] = "raised" \/ CanRaise,
           \A u \in NodeTypes : (pc'[u] = "waiting" /\ ~idSeen'[u]) =>
                Banner \/ (pc[u] = "waiting" /\ ~idSeen[u]),
           \A u \in NodeTypes, a \in Attempts :
                Ran(job'[u][a]) => Ran(job[u][a]) /\ name'[u] = name[u]
    PROVE  RaiseInv'
BY DEF RaiseInv, CanRaise, Ran

\* A submission ends no job.
LEMMA SubmitRuns ==
    ASSUME NEW t \in NodeTypes, NEW a \in Attempts, NEW nm, NEW opts,
           NEW jobs \in [NodeTypes -> [Attempts -> Jobs]],
           Submit(t, a, nm, opts, jobs)
    PROVE  \A u \in NodeTypes, b \in Attempts : Ran(job'[u][b]) => Ran(jobs[u][b])
BY SubmittedJobs DEF Ran

\* Slurm runs a job: its output file is there.
LEMMA SlurmRaises ==
    ASSUME TypeOK, RaiseInv, NEW t \in NodeTypes, NEW a \in Attempts, Slurm(t, a)
    PROVE  RaiseInv'
<1>0. job \in [NodeTypes -> [Attempts -> Jobs]]
  BY DEF TypeOK
<1>1. UNCHANGED <<pc, idSeen, name>>
  BY SlurmFacts DEF local
<1>2. \A u \in NodeTypes, b \in Attempts : (u # t \/ b # a) => job'[u][b] = job[u][b]
  BY SlurmFacts
<1>3. CASE UNCHANGED outputs /\ ~Ran(job'[t][a])
  <2>1. \A u \in NodeTypes, b \in Attempts :
            Ran(job'[u][b]) => Ran(job[u][b]) /\ name'[u] = name[u]
    BY <1>1, <1>2, <1>3
  <2> QED  BY <1>1, <1>3, <2>1, RaisesKept
<1>4. CASE \E r : outputs' = Overwrite(outputs, r) /\ r.name = name[t]
  <2>1. PICK r : outputs' = Overwrite(outputs, r) /\ r.name = name[t]
    BY <1>4
  <2>2. \A n : (\E f \in outputs : f.name = n) => \E f \in outputs' : f.name = n
    BY <2>1 DEF Overwrite
  <2>3. \E f \in outputs' : f.name = name[t]
    BY <2>1 DEF Overwrite
  <2>4. \A u \in NodeTypes, b \in Attempts :
            Ran(job'[u][b]) => \E f \in outputs' : f.name = name[u]
    BY <1>2, <2>2, <2>3 DEF RaiseInv, Ran
  <2> QED  BY <1>1, <2>4 DEF RaiseInv, Ran
<1>5. ASSUME NEW st \in JobStates, job' = SetState(job, t, a, st)
      PROVE  job'[t][a].st = st
  BY <1>0, <1>5, SetJobState
<1>6. CASE SbatchAccepts(t, a)
  <2>1. PICK f \in scripts :
          job' = [job EXCEPT ![t][a] = [st |-> "pending", type |-> f.type, opts |-> f.opts]]
    BY <1>6 DEF SbatchAccepts
  <2>2. job'[t][a] = [st |-> "pending", type |-> f.type, opts |-> f.opts]
    BY <1>0, <2>1
  <2> QED  BY <1>3, <1>6, <2>2 DEF SbatchAccepts, Ran
<1>7. CASE SbatchRejects(t, a)
  <2>1. "rejected" \in JobStates
    BY DEF JobStates
  <2> QED  BY <1>3, <1>5, <1>7, <2>1 DEF SbatchRejects, Ran
<1>8. CASE JobCancelled(t, a)
  <2>1. "cancelled" \in JobStates
    BY DEF JobStates
  <2> QED  BY <1>3, <1>5, <1>8, <2>1 DEF JobCancelled, Ran
<1>9. CASE JobRuns(t, a)
  <2>1. PICK n \in Nodes :
          outputs' = Overwrite(outputs, [name |-> name[t], type |-> t, attempt |-> a, node |-> n])
    BY <1>9 DEF JobRuns, Eligible
  <2> QED  BY <1>4, <2>1
<1> QED  BY <1>6, <1>7, <1>8, <1>9 DEF Slurm, Sbatch

\* One step per action of Next.
LEMMA RaiseStep ==
    ASSUME TypeOK, ControlInv, RaiseInv, [Next]_vars
    PROVE  RaiseInv'
<1>0. /\ DOMAIN pc = NodeTypes /\ DOMAIN name = NodeTypes
      /\ 1 \in Attempts /\ 2 \in Attempts
      /\ job \in [NodeTypes -> [Attempts -> Jobs]]
  BY DEF TypeOK, Attempts
<1>1. ASSUME NEW t \in NodeTypes, Decline(t)  PROVE RaiseInv'
  BY <1>0, <1>1, RaisesKept DEF Decline, files
<1>2. ASSUME NEW t \in NodeTypes, Begin(t)  PROVE RaiseInv'
  <2>1. PICK nm \in Nat, opts \in SUBSET Options, detect \in BOOLEAN : Begins(t, nm, opts, detect)
    BY <1>2, BeginCases
  <2>2. \A a \in Attempts : ~Ran(job[t][a])
    BY <2>1 DEF Begins, ControlInv, StartInv, JobAgeInv, Attempts, Ran
  <2>3. /\ UNCHANGED <<idSeen, outputs>>
        /\ \A u \in NodeTypes : u # t => name'[u] = name[u]
    BY <1>0, <2>1 DEF Begins
  <2>4. \A u \in NodeTypes, a \in Attempts : Ran(job'[u][a]) => Ran(job[u][a])
    <3>1. CASE UNCHANGED job
      BY <3>1
    <3>2. CASE Submit(t, 1, nm, opts \cup Constraint(t), job)
      BY <1>0, <3>2, SubmitRuns
    <3> QED  BY <2>1, <3>1, <3>2 DEF Begins
  <2>5. /\ \A u \in NodeTypes : pc'[u] = "raised" => pc[u] = "raised" \/ CanRaise
        /\ \A u \in NodeTypes : pc'[u] = "waiting" => pc[u] = "waiting"
    BY <1>0, <2>1 DEF Begins, AppendPartition, Submit, Raise, CanRaise
  <2> QED  BY <2>2, <2>3, <2>4, <2>5, RaisesKept
<1>3. ASSUME NEW t \in NodeTypes, BeginFails(t)  PROVE RaiseInv'
  BY <1>0, <1>3, RaisesKept DEF BeginFails, Raise, files, CanRaise
<1>4. ASSUME NEW t \in NodeTypes, Resume(t)  PROVE RaiseInv'
  <2>1. CASE Waits(t)
    BY <1>0, <2>1, RaisesKept DEF Waits, files
  <2>2. CASE Raises(t)
    <3>1. CanRaise
      BY <2>2 DEF Raises, RaiseInv, CanRaise
    <3> QED  BY <1>0, <2>2, <3>1, RaisesKept DEF Raises, Raise, files
  <2>3. ASSUME NEW executed \in BOOLEAN, NEW cancelled \in BOOLEAN,
               NEW jobs \in [NodeTypes -> [Attempts -> Jobs]],
               AttemptEnds(t, executed, cancelled, jobs)
        PROVE  RaiseInv'
    <3>1. attempt[t] \in Attempts /\ (jobs = job \/ jobs = ScancelJob(t)) /\ idSeen' = idSeen
      BY <2>3 DEF AttemptEnds, ControlInv, SuspendInv
    <3>2. \A u \in NodeTypes, b \in Attempts : Ran(jobs[u][b]) => Ran(job[u][b])
      <4>1. {"completed", "failed"} \subseteq JobStates \ {"pending", "cancelling"}
        BY DEF JobStates
      <4>2. \A u \in NodeTypes, b \in Attempts : \A st \in JobStates \ {"pending", "cancelling"} :
                jobs[u][b].st = st <=> job[u][b].st = st
        BY <3>1, ScancelFacts
      <4> QED  BY <4>1, <4>2 DEF Ran
    <3>3. CASE Retries(t, jobs)
      <4>1. Submit(t, 2, name[t], {"part"}, jobs) /\ UNCHANGED <<name, outputs>>
        BY <3>3 DEF Retries
      <4>2. \A u \in NodeTypes, b \in Attempts : Ran(job'[u][b]) => Ran(job[u][b])
        BY <1>0, <3>2, <4>1, SubmitRuns
      <4>3. \A u \in NodeTypes : pc'[u] \in {pc[u], "reading"}
        BY <1>0, <4>1 DEF Submit
      <4> QED  BY <3>1, <4>1, <4>2, <4>3, RaisesKept
    <3>4. CASE Ends(t, executed, jobs)
      <4>1. job' = jobs /\ UNCHANGED <<name, outputs>>
        BY <3>4 DEF Ends
      <4>2. \A u \in NodeTypes : pc'[u] \in {pc[u], "done"}
        <5>1. CASE Raise(t) /\ executed /\ Wait /\ {f \in outputs : f.name = name[t]} = {}
          <6>1. job[t][attempt[t]].st = "completed"
            BY <2>3, <5>1 DEF AttemptEnds
          <6> QED  BY <3>1, <5>1, <6>1 DEF RaiseInv
        <5>2. CASE \E opts, from : AppendPartition(t, name[t], opts, from)
          BY <1>0, <5>2 DEF AppendPartition
        <5> QED  BY <3>4, <5>1, <5>2 DEF Ends
      <4> QED  BY <3>1, <3>2, <4>1, <4>2, RaisesKept
    <3> QED  BY <2>3, <3>3, <3>4, AttemptEndsCases
  <2> QED  BY <1>4, <2>1, <2>2, <2>3, ResumeCases
<1>5. ASSUME NEW t \in NodeTypes, NEW a \in Attempts, Slurm(t, a)  PROVE RaiseInv'
  BY <1>5, SlurmRaises
<1>6. CASE Main
  BY <1>6, RaisesKept DEF Main, StartStatusBar, Finally, StatusBarCancelled, files
<1>7. CASE UNCHANGED vars
  BY <1>7, RaisesKept DEF vars, files
<1> QED  BY <1>1, <1>2, <1>3, <1>4, <1>5, <1>6, <1>7 DEF Next, Coroutine, Terminated

-----------------------------------------------------------------------------
(* The refinement. *)

\* The values of the abstract variables, by the names of the mapping.
Result == [t \in NodeTypes |-> ResultOf(t)]

Phase == IF LoopRuns THEN "running" ELSE main

\* A step that neither ends a coroutine nor create_partitions is a stutter.
LEMMA ResultsKept ==
    ASSUME UNCHANGED partitions, \A u \in NodeTypes : pc'[u] = "done" <=> pc[u] = "done"
    PROVE  Result' = Result
<1>1. \A u \in NodeTypes : CreatedBy(u)' = CreatedBy(u)
  BY DEF CreatedBy
<1>2. \A u \in NodeTypes : ResultOf(u)' = ResultOf(u)
  BY <1>1 DEF ResultOf
<1> QED  BY <1>2 DEF Result

\* A coroutine that ends with its partition settles its node type.
LEMMA PartitionSettles ==
    ASSUME TypeOK, PartitionInv, LoopRuns, NEW t \in NodeTypes, pc[t] # "done",
           NEW nm, NEW opts, NEW from,
           AppendPartition(t, nm, opts, from), UNCHANGED main
    PROVE  Promise!Settle(t)
<1> DEFINE new  == [type |-> t, name |-> nm, access |-> opts, from |-> from]
           last == Len(partitions) + 1
<1>1. /\ partitions \in Seq(Partitions) /\ partitions' = Append(partitions, new)
      /\ pc' = [pc EXCEPT ![t] = "done"] /\ DOMAIN pc = NodeTypes
  BY DEF TypeOK, AppendPartition
<1>2. new.type = t
  OBVIOUS
<1> HIDE DEF new
<1>3. /\ DOMAIN partitions = 1..Len(partitions) /\ DOMAIN partitions' = 1..last
      /\ last \in DOMAIN partitions' /\ last \notin DOMAIN partitions
      /\ partitions'[last] = new
      /\ \A i \in DOMAIN partitions : i \in DOMAIN partitions' /\ partitions'[i] = partitions[i]
      /\ \A i \in DOMAIN partitions' : i \in DOMAIN partitions \/ i = last
  BY <1>1
<1> HIDE DEF last
<1>4. \A u \in NodeTypes : u # t => CreatedBy(u)' = CreatedBy(u) /\ CreatedBy(u) \subseteq DOMAIN partitions
  BY <1>2, <1>3 DEF CreatedBy
<1>5. CreatedBy(t)' # {}
  BY <1>2, <1>3 DEF CreatedBy
<1>6. ResultOf(t) = "open"
  BY DEF ResultOf
<1>7. \A u \in NodeTypes : u # t => ResultOf(u)' = ResultOf(u)
  BY <1>1, <1>3, <1>4 DEF ResultOf
<1>8. ResultOf(t)' \in {"plain", "filled"}
  BY <1>1, <1>5 DEF ResultOf
<1>9. Phase = "running" /\ Phase' = Phase
  BY DEF Phase, LoopRuns
<1>10. PICK r \in {"plain", "filled"} : ResultOf(t)' = r
  BY <1>8
<1>11. Result' = [Result EXCEPT ![t] = r] /\ Result[t] = "open"
  BY <1>6, <1>7, <1>10 DEF Result
<1>12. r \in Promise!Results \ {"open"}
  BY <1>10 DEF Promise!Results
<1> QED  BY <1>9, <1>11, <1>12 DEF Promise!Settle, Phase, Result

\* The user's "no" settles a node type as skipped.
LEMMA DeclineSettles ==
    ASSUME TypeOK, PartitionInv, NEW t \in NodeTypes, Decline(t)
    PROVE  Promise!Settle(t)
<1>1. /\ pc' = [pc EXCEPT ![t] = "done"] /\ DOMAIN pc = NodeTypes /\ pc[t] # "done"
      /\ UNCHANGED <<partitions, main>> /\ LoopRuns /\ UserInput
  BY DEF TypeOK, Decline
<1>2. \A u \in NodeTypes : CreatedBy(u)' = CreatedBy(u)
  BY <1>1 DEF CreatedBy
<1>3. CreatedBy(t) = {}
  BY <1>1 DEF CreatedBy, PartitionInv
<1>4. ResultOf(t) = "open" /\ ResultOf(t)' = "skipped"
  BY <1>1, <1>2, <1>3 DEF ResultOf
<1>5. \A u \in NodeTypes : u # t => ResultOf(u)' = ResultOf(u)
  BY <1>1, <1>2 DEF ResultOf
<1>6. Result' = [Result EXCEPT ![t] = "skipped"] /\ Result[t] = "open"
  BY <1>4, <1>5 DEF Result
<1>7. Phase = "running" /\ Phase' = Phase
  BY <1>1 DEF Phase, LoopRuns
<1>8. "skipped" \in Promise!Results \ {"open"}
  BY <1>1 DEF Promise!Results
<1> QED  BY <1>6, <1>7, <1>8 DEF Promise!Settle, Phase, Result

\* create_partitions returns, or raises what a coroutine raised.
LEMMA OutcomeEnds ==
    ASSUME TypeOK, RaiseInv, GatherDone, LoopRuns, main' = Outcome,
           UNCHANGED <<pc, partitions>>
    PROVE  Promise!Complete \/ Promise!Fail
<1>1. Result' = Result
  BY ResultsKept
<1>2. Phase = "running" /\ Phase' = Outcome
  BY DEF Phase, LoopRuns, Outcome
<1>3. CASE Outcome = "failed"
  <2>1. CommandsFail \/ RelativePrefix \/ Banner
    BY <1>3 DEF Outcome, RaiseInv
  <2>2. Promise!Fail
    BY <1>1, <1>2, <1>3, <2>1 DEF Promise!Fail, Phase, Result
  <2> QED  BY <2>2
<1>4. CASE Outcome = "finished"
  <2>1. \A t \in NodeTypes : pc[t] = "done"
    BY <1>4 DEF Outcome, GatherDone
  <2>2. \A t \in NodeTypes : Result[t] # "open"
    BY <2>1 DEF ResultOf, Result
  <2>3. Promise!Complete
    BY <1>1, <1>2, <1>4, <2>2 DEF Promise!Complete, Phase, Result
  <2> QED  BY <2>3
<1> QED  BY <1>3, <1>4 DEF Outcome

\* One step per action of Next.
LEMMA PromiseStep ==
    ASSUME TypeOK, ControlInv, PartitionInv, RaiseInv, [Next]_vars
    PROVE  [Promise!PromiseNext]_(Promise!pvars)
<1> DEFINE Goal == [Promise!PromiseNext]_(Promise!pvars)
<1>a. ASSUME Result' = Result, Phase' = Phase  PROVE Goal
  BY <1>a DEF Promise!pvars, Result, Phase
<1>b. ASSUME NEW t \in NodeTypes, Promise!Settle(t)  PROVE Goal
  BY <1>b DEF Promise!PromiseNext
<1>c. ASSUME Promise!Complete \/ Promise!Fail  PROVE Goal
  BY <1>c DEF Promise!PromiseNext
<1> SUFFICES Goal
  OBVIOUS
<1> HIDE DEF Goal
<1>0. DOMAIN pc = NodeTypes
  BY DEF TypeOK
<1>1. ASSUME NEW t \in NodeTypes, Decline(t)  PROVE Goal
  BY <1>1, <1>b, DeclineSettles
<1>2. ASSUME NEW t \in NodeTypes, Begin(t)  PROVE Goal
  <2>1. PICK nm \in Nat, opts \in SUBSET Options, detect \in BOOLEAN : Begins(t, nm, opts, detect)
    BY <1>2, BeginCases
  <2>2. CASE \E more \in SUBSET Options : AppendPartition(t, nm, more, {})
    <3>1. pc[t] # "done" /\ LoopRuns /\ UNCHANGED main
      BY <2>1 DEF Begins
    <3> QED  BY <1>b, <2>2, <3>1, PartitionSettles
  <2>3. CASE UNCHANGED partitions /\ (Raise(t) \/ Submit(t, 1, nm, opts \cup Constraint(t), job))
    <3>1. \A u \in NodeTypes : pc'[u] = "done" <=> pc[u] = "done"
      BY <1>0, <2>1, <2>3 DEF Begins, Raise, Submit
    <3>2. UNCHANGED main
      BY <2>1 DEF Begins
    <3> QED  BY <1>a, <2>3, <3>1, <3>2, ResultsKept DEF Phase, LoopRuns
  <2> QED  BY <2>1, <2>2, <2>3 DEF Begins
<1>3. ASSUME NEW t \in NodeTypes, BeginFails(t)  PROVE Goal
  <2>1. /\ \A u \in NodeTypes : pc'[u] = "done" <=> pc[u] = "done"
        /\ UNCHANGED <<partitions, main>>
    BY <1>0, <1>3 DEF BeginFails, Raise
  <2> QED  BY <1>a, <2>1, ResultsKept DEF Phase, LoopRuns
<1>4. ASSUME NEW t \in NodeTypes, Resume(t)  PROVE Goal
  <2>1. CASE Waits(t) \/ Raises(t)
    <3>1. /\ \A u \in NodeTypes : pc'[u] = "done" <=> pc[u] = "done"
          /\ UNCHANGED <<partitions, main>>
      BY <1>0, <2>1 DEF Waits, Raises, Raise, Suspended
    <3> QED  BY <1>a, <3>1, ResultsKept DEF Phase, LoopRuns
  <2>2. ASSUME NEW executed \in BOOLEAN, NEW cancelled \in BOOLEAN, NEW jobs,
               AttemptEnds(t, executed, cancelled, jobs)
        PROVE  Goal
    <3>1. pc[t] # "done" /\ LoopRuns
      BY <1>4, <2>2, ResumeCases DEF AttemptEnds, Suspended
    <3>2. CASE Retries(t, jobs)
      <4>1. /\ \A u \in NodeTypes : pc'[u] = "done" <=> pc[u] = "done"
            /\ UNCHANGED <<partitions, main>>
        BY <1>0, <3>1, <3>2 DEF Retries, Submit
      <4> QED  BY <1>a, <4>1, ResultsKept DEF Phase, LoopRuns
    <3>3. CASE Ends(t, executed, jobs) /\ Raise(t) /\ UNCHANGED partitions
      <4>1. /\ \A u \in NodeTypes : pc'[u] = "done" <=> pc[u] = "done"
            /\ UNCHANGED <<partitions, main>>
        BY <1>0, <3>1, <3>3 DEF Ends, Raise
      <4> QED  BY <1>a, <4>1, ResultsKept DEF Phase, LoopRuns
    <3>4. CASE Ends(t, executed, jobs) /\ \E opts, from : AppendPartition(t, name[t], opts, from)
      <4>1. UNCHANGED main
        BY <3>4 DEF Ends
      <4> QED  BY <1>b, <3>1, <3>4, <4>1, PartitionSettles
    <3> QED  BY <2>2, <3>2, <3>3, <3>4, AttemptEndsCases DEF Ends
  <2> QED  BY <1>4, <2>1, <2>2, ResumeCases
<1>5. ASSUME NEW t \in NodeTypes, NEW a \in Attempts, Slurm(t, a)  PROVE Goal
  <2>1. UNCHANGED <<pc, partitions, main>>
    BY <1>5, SlurmFacts DEF local
  <2> QED  BY <1>a, <2>1, ResultsKept DEF Phase, LoopRuns
<1>6. CASE Main
  <2>1. UNCHANGED <<pc, partitions>>
    BY <1>6 DEF Main, StartStatusBar, Finally, StatusBarCancelled
  <2>2. CASE main' = Outcome /\ (Finally \/ StatusBarCancelled)
    <3>1. GatherDone /\ LoopRuns
      BY <2>2 DEF Finally, StatusBarCancelled, ControlInv, MainInv, LoopRuns
    <3> QED  BY <1>c, <2>1, <2>2, <3>1, OutcomeEnds
  <2>3. CASE main' \in {"bar", "cancelbar"} /\ main \in {"waiting", "bar"}
    BY <1>a, <2>1, <2>3, ResultsKept DEF Phase, LoopRuns
  <2> QED  BY <1>6, <2>2, <2>3 DEF Main, StartStatusBar, Finally, StatusBarCancelled
<1>7. CASE UNCHANGED vars
  BY <1>7, <1>a, ResultsKept DEF vars, Phase, LoopRuns
<1> QED  BY <1>1, <1>2, <1>3, <1>4, <1>5, <1>6, <1>7 DEF Next, Coroutine, Terminated

LEMMA PromiseStarts == Init => Promise!PromiseInit
<1> SUFFICES ASSUME Init  PROVE Promise!PromiseInit
  OBVIOUS
<1>1. \A t \in NodeTypes : ResultOf(t) = "open"
  BY DEF Init, ResultOf
<1>2. LoopRuns
  BY DEF Init, LoopRuns
<1> QED  BY <1>1, <1>2 DEF Promise!PromiseInit

\* The detection, with every interleaving, failure and answer, does nothing
\* build_config was not promised.
THEOREM Implements == Spec => KeepsPromise
<1>1. Init => PartitionInv /\ RaiseInv
  BY DEF Init, PartitionInv, RaiseInv, NoJob
<1>2. TypeOK /\ ControlInv /\ PartitionInv /\ RaiseInv /\ [Next]_vars => (PartitionInv /\ RaiseInv)'
  BY PartitionStep, RaiseStep
<1>3. TypeOK /\ ControlInv /\ PartitionInv /\ RaiseInv /\ [Next]_vars
            => [Promise!PromiseNext]_(Promise!pvars)
  BY PromiseStep
<1> QED  BY TypeCorrect, PromiseStarts, <1>1, <1>2, <1>3, PTL
         DEF Spec, KeepsPromise, Promise!PromiseSpec

-----------------------------------------------------------------------------
(* The inductive invariant as a whole. *)

\* IInv without the conjunct that follows from the others.
CoreInv ==
    /\ TypeOK /\ ControlInv /\ PartitionInv /\ RaiseInv
    /\ Follows => JobInv
    /\ DefaultNames => NameInv
    /\ (Follows /\ DefaultNames) => FileInv /\ ReadsOwnJob

\* Every part of the inductive invariant that the runs check holds in every
\* reachable state, on every cluster and with every option: each under the
\* assumptions, Follows and the names, that are written in IInv.
THEOREM Inductive == Spec => []IInv
<1>1. Init => CoreInv
  <2> SUFFICES ASSUME Init  PROVE CoreInv
    OBVIOUS
  <2>1. PartitionInv /\ RaiseInv /\ JobInv /\ NameInv /\ FileInv /\ ReadsOwnJob
    BY DEF Init, PartitionInv, RaiseInv, JobInv, NameInv, FileInv, ReadsOwnJob, NoJob, Live,
           Attempts
  <2> QED  BY <2>1, InitControl DEF CoreInv
<1>2. CoreInv /\ [Next]_vars => CoreInv'
  <2> SUFFICES ASSUME CoreInv, [Next]_vars  PROVE CoreInv'
    OBVIOUS
  <2>1. TypeOK /\ ControlInv /\ PartitionInv /\ RaiseInv
    BY DEF CoreInv
  <2>2. TypeOK' /\ ControlInv' /\ PartitionInv' /\ RaiseInv'
    BY <2>1, TypeStep, ControlStep, PartitionStep, RaiseStep
  <2>3. ASSUME Follows  PROVE JobInv /\ JobInv'
    BY <2>1, <2>3, JobStep DEF CoreInv
  <2>4. ASSUME DefaultNames  PROVE NameInv /\ NameInv'
    BY <2>1, <2>4, NameStep DEF CoreInv
  <2>5. ASSUME Follows, DefaultNames  PROVE FileInv' /\ ReadsOwnJob'
    <3>1. FileInv /\ ReadsOwnJob
      BY <2>5 DEF CoreInv
    <3> QED  BY <2>1, <2>3, <2>4, <2>5, <3>1, FileStep, ReadStep
  <2>6. DefaultNames' = DefaultNames
    BY DEF DefaultNames
  <2> QED  BY <2>2, <2>3, <2>4, <2>5, <2>6 DEF CoreInv
<1>3. CoreInv => IInv
  BY OwnTypes DEF CoreInv, IInv
<1> QED  BY <1>1, <1>2, <1>3, PTL DEF Spec
================================================================================
