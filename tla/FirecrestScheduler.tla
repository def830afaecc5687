--------------------------- MODULE FirecrestScheduler ---------------------------
(***************************************************************************)
(* SlurmFirecrestJobScheduler: jobs run on a system that is reached only   *)
(* through the FirecREST service.  submit() cleans a remote directory,     *)
(* copies the stage directory of the test there and submits the script;    *)
(* poll() asks for the state of the jobs; wait() copies the directory back *)
(* once the job has ended.                                                 *)
(*                                                                         *)
(* The process is single-threaded: a submission or a poll runs to its end  *)
(* before the next one.  Slurm goes on between any two calls of the        *)
(* service, and any call may fail.                                         *)
(***************************************************************************)
EXTENDS Naturals, FiniteSets

CONSTANTS
    Tests,        \* the tests of the session; each has a stage directory
    Compiled,     \* those compiled by a job of their own, in the same directory
    Leftover,     \* those whose remote directory an earlier session has used
    MaxJobs,      \* bound: the submissions Slurm accepts
    MaxLost       \* bound: those of them the service answers by an error

ASSUME FirecrestAssumption ==
    /\ Compiled \subseteq Tests /\ Leftover \subseteq Tests
    /\ MaxJobs \in Nat /\ MaxLost \in Nat

VARIABLES
    pc,          \* test -> where its current job is in submit() and wait()
    step,        \* test -> which of its jobs is the current one
    cleaned,     \* _cleaned_remotedirs
    jobid,       \* test -> step -> job._jobid
    state,       \* test -> job._state of the current job, as of the last poll
    cancelling,  \* tests whose current job poll() has cancelled (job._exception)
    polling,     \* the jobs of the poll() under way ({}: none)
    todo,        \* those poll() has not asked for yet
    info,        \* job_info: what the service has answered so far
    local,       \* test -> step -> output in the local stage directory
    remote,      \* test -> step -> output in the remote directory
    jobs,        \* id -> Slurm's job
    earlier,     \* tests a job of an earlier session still runs for
    dirty,       \* (history) tests that started without a clean directory
    lost         \* (history) ids of the jobs whose submission was answered by an error

client == <<pc, step, cleaned, jobid, state, cancelling, local>>
poll   == <<polling, todo, info>>
system == <<remote, jobs, earlier>>
vars   == <<client, poll, system, dirty, lost>>

-----------------------------------------------------------------------------
\* The compilation and the run of a test.
Steps == 1..2

Ids == 1..MaxJobs

\* slurm_state_completed.
Ended == {"completed", "cancelled"}

\* Slurm's states are "none", "new" (accepted, and not yet in the database that
\* job_info asks), "pending", "running" and the two of Ended.

\* An output file: the job that wrote it (0: one of an earlier session), and
\* whether that job has ended since.
NoFile  == [by |-> 0, whole |-> FALSE]
OldFile == [by |-> 0, whole |-> TRUE]
Output(i, whole) == [by |-> i, whole |-> whole]

EmptyDir == [s \in Steps |-> NoFile]

NoJob == [st |-> "none", test |-> CHOOSE t \in Tests : TRUE, step |-> 1]

\* Files of "over" replace those of the same name.
Overlay(under, over) ==
    [s \in Steps |-> IF over[s] = NoFile THEN under[s] ELSE over[s]]

Busy == polling # {} \/ \E t \in Tests : pc[t] \in {"staging", "submitting"}

Queued == {t \in Tests : pc[t] = "queued"}

Over(t) == pc[t] \in {"done", "failed"}

CurrentId(t) == jobid[t][step[t]]

Unused == {i \in Ids : jobs[i].st = "none"}

\* The tests that a job of unknown id may be running for.
LostTests == {jobs[i].test : i \in lost}

-----------------------------------------------------------------------------
\* The remote directories may hold what an earlier session left there, one of
\* its jobs included: it was killed, or gave up on a job (see GiveUp).
Init ==
    /\ pc = [t \in Tests |-> "ready"]
    /\ step = [t \in Tests |-> IF t \in Compiled THEN 1 ELSE 2]
    /\ cleaned = {}
    /\ jobid = [t \in Tests |-> [s \in Steps |-> 0]]
    /\ state = [t \in Tests |-> "none"]
    /\ cancelling = {}
    /\ polling = {} /\ todo = {}
    /\ info = [t \in Tests |-> "none"]
    /\ local = [t \in Tests |-> EmptyDir]
    /\ remote = [t \in Tests |-> IF t \in Leftover THEN [s \in Steps |-> OldFile] ELSE EmptyDir]
    /\ jobs = [i \in Ids |-> NoJob]
    /\ earlier \in SUBSET Leftover
    /\ dirty = {} /\ lost = {}

-----------------------------------------------------------------------------
(* submit. *)

Fail(t) == pc' = [pc EXCEPT ![t] = "failed"]

\* The remote directory is removed once per session.  Every error of rm is
\* taken for "no such directory", and the directory is remembered as clean.
Clean(t) ==
    /\ pc[t] = "ready" /\ ~Busy
    /\ pc' = [pc EXCEPT ![t] = "staging"]
    /\ \/ t \in cleaned /\ UNCHANGED <<cleaned, remote, dirty>>
       \/ /\ t \notin cleaned
          /\ cleaned' = cleaned \cup {t}
          /\ \/ /\ remote' = [remote EXCEPT ![t] = EmptyDir]
                /\ dirty' = dirty \cup ({t} \cap earlier)
             \/ /\ remote[t] # EmptyDir \* the directory is there
                /\ dirty' = dirty \cup {t}
                /\ UNCHANGED remote
    /\ UNCHANGED <<step, jobid, state, cancelling, local, poll, jobs, earlier, lost>>

\* mkdir and _push_artefacts: the local stage directory is unpacked over the
\* remote one.  A call that fails before or after that ends the test.
Stage(t) ==
    /\ pc[t] = "staging"
    /\ \/ /\ remote' = [remote EXCEPT ![t] = Overlay(remote[t], local[t])]
          /\ \/ pc' = [pc EXCEPT ![t] = "submitting"]
             \/ Fail(t)
       \/ Fail(t) /\ UNCHANGED remote
    /\ UNCHANGED <<step, cleaned, jobid, state, cancelling, local, poll, jobs, earlier,
                   dirty, lost>>

\* Slurm accepts the script.  Ids grow.
Accept(t, i) ==
    /\ i \in Unused /\ \A j \in Unused : i <= j
    /\ jobs' = [jobs EXCEPT ![i] = [st |-> "new", test |-> t, step |-> step[t]]]

\* The job id is read from the reply.
SubmitReplies(t, i) ==
    /\ pc[t] = "submitting" /\ Accept(t, i)
    /\ jobid' = [jobid EXCEPT ![t][step[t]] = i]
    /\ pc' = [pc EXCEPT ![t] = "queued"]
    /\ UNCHANGED <<step, cleaned, state, cancelling, local, poll, remote, earlier, dirty, lost>>

\* The call fails: the loop goes on when the message is one of
\* _resubmit_on_errors, and the exception is raised otherwise.
SubmitFails(t) ==
    /\ pc[t] = "submitting"
    /\ \/ /\ Cardinality(lost) < MaxLost
          /\ \E i \in Ids : Accept(t, i) /\ lost' = lost \cup {i}
       \/ UNCHANGED <<jobs, lost>>
    /\ \/ UNCHANGED pc
       \/ Fail(t)
    /\ UNCHANGED <<step, cleaned, jobid, state, cancelling, local, poll, remote, earlier, dirty>>

-----------------------------------------------------------------------------
(* poll. *)

\* An exception leaves poll(): of wait(), which the test does not survive, or
\* of the framework's poll of all the jobs, which the session does not survive.
GiveUp ==
    /\ \E lose \in {polling, {t \in Tests : ~Over(t)}} :
        pc' = [t \in Tests |-> IF t \in lose THEN "failed" ELSE pc[t]]
    /\ polling' = {} /\ todo' = {}
    /\ info' = [t \in Tests |-> "none"]

\* wait() asks for one job, the framework for any of those in the queue.
StartPoll(asked) ==
    /\ asked # {} /\ asked \subseteq Queued /\ ~Busy
    /\ polling' = asked /\ todo' = asked
    /\ UNCHANGED <<client, info, system, dirty, lost>>

\* Mutated form, for the checks: a job that is not found has been purged.
AnswerPurged(i) == IF jobs[i].st = "new" THEN "completed" ELSE jobs[i].st

\* job_info of one job: nothing when it is not in the database (404).
Answer(i) == IF jobs[i].st = "new" THEN "none" ELSE jobs[i].st

JobInfo(t) ==
    /\ t \in todo
    /\ todo' = todo \ {t}
    /\ info' = [info EXCEPT ![t] = Answer(CurrentId(t))]
    /\ UNCHANGED <<client, polling, system, dirty, lost>>

\* Any other error: no job of this poll is updated.
JobInfoFails(t) ==
    /\ t \in todo
    /\ GiveUp
    /\ UNCHANGED <<step, cleaned, jobid, state, cancelling, local, system, dirty, lost>>

\* The states of the jobs once poll() has updated those it knows of.
Updated == [t \in Tests |-> IF t \in polling /\ info[t] # "none" THEN info[t] ELSE state[t]]

\* Slurm serves scancel for the jobs of the tests in "gone".
Scancelled(gone) ==
    [i \in Ids |-> IF jobs[i].st \in {"pending", "running"} /\ \E t \in gone : CurrentId(t) = i
                   THEN [jobs[i] EXCEPT !.st = "cancelled"] ELSE jobs[i]]

\* _cancel_if_blocked and _cancel_if_pending_too_long: cancel some of the jobs
\* the answers show pending.  Slurm may have started them since.
MayCancel == {t \in polling : Updated[t] = "pending" /\ t \notin cancelling}

EndPoll ==
    /\ polling # {} /\ todo = {}
    /\ state' = Updated
    /\ \E gone \in SUBSET MayCancel :
        /\ cancelling' = cancelling \cup gone
        /\ \/ /\ jobs' = Scancelled(gone)
              /\ polling' = {} /\ info' = [t \in Tests |-> "none"]
              /\ UNCHANGED <<pc, todo>>
           \/ \* the cancellation of another one fails, before or after its effect
              \E t \in MayCancel \ gone :
                /\ jobs' = Scancelled(gone) \/ jobs' = Scancelled(gone \cup {t})
                /\ GiveUp
    /\ UNCHANGED <<step, cleaned, jobid, local, remote, earlier, dirty, lost>>

-----------------------------------------------------------------------------
(* wait, once finished() holds. *)

\* Mutated forms: a job that has started, one that was cancelled, and one that
\* did not complete.
FinishedTooSoon(t)   == t \notin cancelling /\ state[t] \in Ended \cup {"running"}
FinishedAnyway(t)    == state[t] \in Ended
FinishedOnSuccess(t) == t \notin cancelling /\ state[t] = "completed"

\* finished(): the exception of a job that poll() cancelled is raised first.
Finished(t) == t \notin cancelling /\ state[t] \in Ended

\* finished() raises.
WaitRaises(t) ==
    /\ pc[t] = "queued" /\ ~Busy /\ t \in cancelling
    /\ Fail(t)
    /\ UNCHANGED <<step, cleaned, jobid, state, cancelling, local, poll, system, dirty, lost>>

\* _pull_artefacts: the remote directory is unpacked over the local one, as it
\* was when the service packed it.  The next job of the test, if any, is a new
\* Job.
Pull(t) ==
    /\ pc[t] = "queued" /\ ~Busy /\ Finished(t)
    /\ \/ /\ local' = [local EXCEPT ![t] = Overlay(local[t], remote[t])]
          /\ \/ /\ step[t] < 2
                /\ step' = [step EXCEPT ![t] = 2]
                /\ state' = [state EXCEPT ![t] = "none"]
                /\ pc' = [pc EXCEPT ![t] = "ready"]
             \/ /\ step[t] = 2
                /\ pc' = [pc EXCEPT ![t] = "done"]
                /\ UNCHANGED <<step, state>>
       \/ Fail(t) /\ UNCHANGED <<local, step, state>>
    /\ UNCHANGED <<cleaned, jobid, cancelling, poll, system, dirty, lost>>

-----------------------------------------------------------------------------
(* Slurm. *)

SetSt(i, st) == jobs' = [jobs EXCEPT ![i].st = st]

Write(t, s, file) == remote' = [remote EXCEPT ![t][s] = file]

Register(i) ==
    /\ jobs[i].st = "new" /\ SetSt(i, "pending")
    /\ UNCHANGED <<client, poll, remote, earlier, dirty, lost>>

\* The job opens its output file when it starts, and writes until it ends.
Start(i) ==
    /\ jobs[i].st = "pending" /\ SetSt(i, "running")
    /\ Write(jobs[i].test, jobs[i].step, Output(i, FALSE))
    /\ UNCHANGED <<client, poll, earlier, dirty, lost>>

End(i) ==
    /\ jobs[i].st = "running" /\ SetSt(i, "completed")
    /\ Write(jobs[i].test, jobs[i].step, Output(i, TRUE))
    /\ UNCHANGED <<client, poll, earlier, dirty, lost>>

\* Its time limit, or an administrator.
Kill(i) ==
    /\ jobs[i].st \in {"pending", "running"} /\ SetSt(i, "cancelled")
    /\ UNCHANGED <<client, poll, remote, earlier, dirty, lost>>

\* A job of an earlier session writes in the same directory to its end.
EarlierEnds(t) ==
    /\ t \in earlier /\ earlier' = earlier \ {t}
    /\ \E s \in Steps : Write(t, s, OldFile)
    /\ UNCHANGED <<client, poll, jobs, dirty, lost>>

-----------------------------------------------------------------------------
Submit(t) == SubmitFails(t) \/ \E i \in Ids : SubmitReplies(t, i)

Wait(t) == WaitRaises(t) \/ Pull(t)

AskFor(t) == JobInfo(t) \/ JobInfoFails(t)

Run(i) == Start(i) \/ End(i) \/ Kill(i)

Terminated ==
    /\ earlier = {} /\ \A t \in Tests : Over(t)
    /\ \A i \in Ids : jobs[i].st \in Ended \cup {"none"}
    /\ UNCHANGED vars

Next ==
    \/ \E t \in Tests : Clean(t) \/ Stage(t) \/ Submit(t) \/ AskFor(t) \/ Wait(t)
    \/ \E asked \in SUBSET Tests : StartPoll(asked)
    \/ EndPoll
    \/ \E i \in Ids : Register(i) \/ Run(i)
    \/ \E t \in Tests : EarlierEnds(t)
    \/ Terminated

(* The process runs, asks for every job as long as it is not finished, and    *)
(* gets its turn between the calls made for other tests; Slurm runs the jobs. *)
Fairness ==
    /\ \A t \in Tests :
        /\ SF_vars(Clean(t)) /\ WF_vars(Stage(t)) /\ WF_vars(Submit(t))
        /\ SF_vars(\E asked \in SUBSET Tests : t \in asked /\ StartPoll(asked))
        /\ WF_vars(AskFor(t)) /\ SF_vars(Wait(t))
    /\ WF_vars(EndPoll)
    /\ \A i \in Ids : WF_vars(Register(i)) /\ WF_vars(Run(i))

Spec == Init /\ [][Next]_vars

FairSpec == Spec /\ Fairness

-----------------------------------------------------------------------------
(* Properties. *)

\* The tests whose directory was clean and whose submissions were all answered.
Undisturbed(t) == t \notin dirty \cup LostTests

\* What a test is judged by was written by its own jobs, all of it when they
\* completed, and none of them goes on writing: whatever Slurm did between the
\* calls, and whatever earlier sessions left.
ResultIsOwn ==
    \A t \in Tests : (pc[t] = "done" /\ Undisturbed(t)) =>
        \A s \in Steps : jobid[t][s] # 0 =>
            LET i == jobid[t][s]
            IN  /\ jobs[i].st \in Ended
                /\ local[t][s] \in {NoFile, Output(i, FALSE), Output(i, TRUE)}
                /\ jobs[i].st = "completed" => local[t][s] = Output(i, TRUE)

\* A job that may still write in a test's directory is the one the test waits
\* for: the run is never submitted while the compilation goes on, and no job
\* is submitted twice, unless the reply of a submission was lost.
OnlyCurrentJob ==
    \A i \in Ids :
        (jobs[i].st \notin Ended \cup {"none"} /\ jobs[i].test \notin LostTests)
            => CurrentId(jobs[i].test) = i

\* A test whose job poll() has cancelled never gets a result, even when the job
\* had started, or ended, by then.
NoCancelledResult == \A t \in cancelling : pc[t] \in {"queued", "failed"}

\* A session ends: every job is finished or given up.
SessionEnds == <>(\A t \in Tests : Over(t))
=============================================================================
