---------------------------- MODULE FirecrestProofs ----------------------------
(***************************************************************************)
(* Theorems about FirecrestScheduler: any tests, any number of             *)
(* submissions, any of which may be lost.                                  *)
(***************************************************************************)
EXTENDS FirecrestScheduler, TLAPS

(* The inductive invariant. *)

Before == {"ready", "staging", "submitting"}

Places == Before \cup {"queued", "done", "failed"}

States == {"none", "pending", "running"} \cup Ended

Files == [by : Ids \cup {0}, whole : BOOLEAN]

Jobs == [Ids -> [st : States \cup {"new"}, test : Tests \cup {NoJob.test}, step : Steps]]

TypeOK ==
    /\ pc \in [Tests -> Places] /\ step \in [Tests -> Steps]
    /\ jobid \in [Tests -> [Steps -> Ids \cup {0}]]
    /\ state \in [Tests -> States] /\ info \in [Tests -> States]
    /\ local \in [Tests -> [Steps -> Files]] /\ remote \in [Tests -> [Steps -> Files]]
    /\ jobs \in Jobs
    /\ cancelling \subseteq Tests /\ cleaned \subseteq Tests /\ earlier \subseteq Tests
    /\ dirty \subseteq Tests /\ lost \subseteq Ids

\* A poll is about jobs that wait() has not finished with.
PollInv ==
    /\ polling \subseteq Queued /\ todo \subseteq polling
    /\ \A t \in Tests : info[t] # "none" => t \in polling

\* The ids the process knows are those of the submissions that were answered,
\* each filed under its test and its step; steps are submitted in order.
IdInv ==
    /\ \A t \in Tests : \A s \in Steps : jobid[t][s] # 0 =>
        /\ jobid[t][s] \notin lost /\ jobs[jobid[t][s]].st # "none"
        /\ jobs[jobid[t][s]].test = t /\ jobs[jobid[t][s]].step = s
    /\ \A t \in Tests :
        /\ \A s \in Steps : s > step[t] => jobid[t][s] = 0
        /\ pc[t] \in Before => CurrentId(t) = 0
        /\ pc[t] \in {"queued", "done"} => CurrentId(t) # 0
    /\ \A i \in Ids : jobs[i].st # "none" =>
        /\ jobs[i].test \in Tests
        /\ i \notin lost => jobid[jobs[i].test][jobs[i].step] = i
    /\ \A i \in lost : jobs[i].st # "none"

JobEnded(i) == jobs[i].st \in Ended

\* What the process takes for ended has ended.
EndInv ==
    \A t \in Tests :
        /\ pc[t] \in Before => state[t] = "none"
        /\ pc[t] = "queued" /\ state[t] \in Ended => JobEnded(CurrentId(t))
        /\ t \in polling /\ info[t] \in Ended => JobEnded(CurrentId(t))
        /\ \A s \in Steps : (s < step[t] \/ pc[t] = "done") /\ jobid[t][s] # 0
                                => JobEnded(jobid[t][s])

Own(t, s, file) == file # NoFile => jobid[t][s] # 0 /\ file.by = jobid[t][s]

WholeIfCompleted(t, s, file) ==
    jobid[t][s] # 0 /\ jobs[jobid[t][s]].st = "completed" => file = Output(jobid[t][s], TRUE)

\* A directory cleaned while no earlier job ran, by a session whose submissions
\* were answered, holds the outputs of the test's own jobs; the local one holds
\* those of the jobs that have ended, as they left them.
FileInv ==
    \A t \in Tests :
        /\ t \notin cleaned =>
            /\ pc[t] \in {"ready", "failed"}
            /\ \A s \in Steps : jobid[t][s] = 0 /\ local[t][s] = NoFile
        /\ t \in cleaned /\ Undisturbed(t) =>
            /\ t \notin earlier
            /\ \A s \in Steps :
                /\ Own(t, s, remote[t][s]) /\ WholeIfCompleted(t, s, remote[t][s])
                /\ Own(t, s, local[t][s])
                /\ local[t][s] # NoFile =>
                    JobEnded(jobid[t][s]) /\ WholeIfCompleted(t, s, local[t][s])
                /\ pc[t] = "done" => WholeIfCompleted(t, s, local[t][s])

IInv == TypeOK /\ PollInv /\ IdInv /\ EndInv /\ NoCancelledResult /\ FileInv

-----------------------------------------------------------------------------
(* Facts about the operators. *)

LEMMA IdsAreNumbers == Ids \subseteq Nat /\ 0 \notin Ids
  BY FirecrestAssumption DEF Ids

\* Nothing that Slurm or a cancellation does to a job changes its test, or
\* brings a job back that has ended.
LEMMA ScancelledKeeps ==
    ASSUME TypeOK, NEW gone
    PROVE  LET after == Scancelled(gone) IN
           /\ after \in Jobs
           /\ \A i \in Ids : /\ after[i].test = jobs[i].test /\ after[i].step = jobs[i].step
                             /\ after[i].st = jobs[i].st
                                  \/ /\ jobs[i].st \in {"pending", "running"}
                                     /\ after[i].st = "cancelled"
  BY DEF TypeOK, Jobs, Scancelled, States, Ended

LEMMA SetStEffect ==
    ASSUME jobs \in Jobs, NEW i \in Ids, NEW st \in States \cup {"new"}, SetSt(i, st)
    PROVE  /\ jobs' \in Jobs
           /\ jobs'[i].st = st /\ jobs'[i].test = jobs[i].test /\ jobs'[i].step = jobs[i].step
           /\ \A j \in Ids : j # i => jobs'[j] = jobs[j]
  BY DEF Jobs, SetSt

LEMMA WriteType ==
    ASSUME remote \in [Tests -> [Steps -> Files]], NEW t \in Tests, NEW s \in Steps,
           NEW file \in Files, Write(t, s, file)
    PROVE  remote' \in [Tests -> [Steps -> Files]]
  BY DEF Write

LEMMA FilesType ==
    /\ NoFile \in Files /\ OldFile \in Files /\ EmptyDir \in [Steps -> Files]
    /\ \A i \in Ids, whole \in BOOLEAN : Output(i, whole) \in Files
  BY DEF NoFile, OldFile, EmptyDir, Output, Files

LEMMA OverlayType ==
    ASSUME NEW under \in [Steps -> Files], NEW over \in [Steps -> Files]
    PROVE  /\ Overlay(under, over) \in [Steps -> Files]
           /\ \A s \in Steps : Overlay(under, over)[s] =
                                  IF over[s] = NoFile THEN under[s] ELSE over[s]
  BY DEF Overlay

-----------------------------------------------------------------------------
(* Type correctness. *)

LEMMA InitType == Init => TypeOK
  BY FirecrestAssumption DEF Init, TypeOK, Places, Before, Steps, States, Files, EmptyDir,
     NoFile, OldFile, NoJob, Jobs

LEMMA PollStep == TypeOK /\ PollInv /\ [Next]_vars => PollInv'
<1> SUFFICES ASSUME TypeOK, PollInv, [Next]_vars  PROVE PollInv'
  OBVIOUS
<1> USE DEF PollInv, Queued, TypeOK
<1>1. ASSUME NEW t \in Tests, Clean(t)  PROVE PollInv'
  BY <1>1 DEF Clean, poll
<1>2. ASSUME NEW t \in Tests, Stage(t)  PROVE PollInv'
  BY <1>2 DEF Stage, poll, Fail
<1>3. ASSUME NEW t \in Tests, Submit(t)  PROVE PollInv'
  BY <1>3 DEF Submit, SubmitFails, SubmitReplies, poll, Fail
<1>4. ASSUME NEW t \in Tests, AskFor(t)  PROVE PollInv'
  BY <1>4 DEF AskFor, JobInfo, JobInfoFails, GiveUp, client
<1>5. ASSUME NEW t \in Tests, Wait(t)  PROVE PollInv'
  <2>1. t \notin polling
    BY <1>5 DEF Wait, WaitRaises, Pull, Busy
  <2> QED  BY <1>5, <2>1 DEF Wait, WaitRaises, Pull, poll, Fail
<1>6. ASSUME NEW asked \in SUBSET Tests, StartPoll(asked)  PROVE PollInv'
  BY <1>6 DEF StartPoll, Busy, client
<1>7. CASE EndPoll
  BY <1>7 DEF EndPoll, GiveUp
<1>8. CASE \E i \in Ids : Register(i) \/ Run(i)
  BY <1>8 DEF Register, Run, Start, End, Kill, client, poll
<1>9. CASE \E t \in Tests : EarlierEnds(t)
  BY <1>9 DEF EarlierEnds, client, poll
<1>10. CASE UNCHANGED vars
  BY <1>10 DEF vars, client, poll
<1> QED  BY <1>1, <1>2, <1>3, <1>4, <1>5, <1>6, <1>7, <1>8, <1>9, <1>10 DEF Next, Terminated

LEMMA TypeStep == TypeOK /\ PollInv /\ IdInv /\ [Next]_vars => TypeOK'
<1> SUFFICES ASSUME TypeOK, PollInv, IdInv, [Next]_vars  PROVE TypeOK'
  OBVIOUS
<1> USE DEF TypeOK, Places, Before
<1>1. ASSUME NEW t \in Tests, Clean(t)  PROVE TypeOK'
  <2>1. remote' \in [Tests -> [Steps -> Files]]
    BY <1>1, FilesType DEF Clean
  <2>2. pc' \in [Tests -> Places] /\ cleaned' \subseteq Tests /\ dirty' \subseteq Tests
    BY <1>1 DEF Clean
  <2> QED  BY <1>1, <2>1, <2>2 DEF Clean, poll
<1>2. ASSUME NEW t \in Tests, Stage(t)  PROVE TypeOK'
  <2>1. Overlay(remote[t], local[t]) \in [Steps -> Files]
    BY OverlayType
  <2>2. remote' \in [Tests -> [Steps -> Files]]
    BY <1>2, <2>1 DEF Stage
  <2>3. pc' \in [Tests -> Places]
    BY <1>2 DEF Stage, Fail
  <2> QED  BY <1>2, <2>2, <2>3 DEF Stage, poll
<1>3. ASSUME NEW t \in Tests, NEW i \in Ids, SubmitReplies(t, i)  PROVE TypeOK'
  BY <1>3 DEF SubmitReplies, Accept, Jobs, poll, States
<1>4. ASSUME NEW t \in Tests, SubmitFails(t)  PROVE TypeOK'
  <2>1. jobs' \in Jobs
    <3>1. ASSUME NEW i \in Ids, Accept(t, i)  PROVE jobs' \in Jobs
      BY <3>1 DEF Accept, Jobs, States
    <3> QED  BY <1>4, <3>1 DEF SubmitFails
  <2>3. lost' \subseteq Ids
    BY <1>4 DEF SubmitFails
  <2>2. pc' \in [Tests -> Places]
    BY <1>4 DEF SubmitFails, Fail
  <2> QED  BY <1>4, <2>1, <2>2, <2>3 DEF SubmitFails, poll
<1>5. ASSUME NEW t \in Tests, JobInfo(t)  PROVE TypeOK'
  <2>1. t \in polling /\ pc[t] = "queued"
    BY <1>5 DEF JobInfo, PollInv, Queued
  <2>2. CurrentId(t) \in Ids
    BY <2>1 DEF IdInv, CurrentId
  <2>3. Answer(CurrentId(t)) \in States
    BY <2>2 DEF Answer, Jobs, States, Ended
  <2> QED  BY <1>5, <2>3 DEF JobInfo, client, system
<1>6. ASSUME NEW t \in Tests, JobInfoFails(t)  PROVE TypeOK'
  <2>1. pc' \in [Tests -> Places] /\ info' \in [Tests -> States]
    BY <1>6 DEF JobInfoFails, GiveUp, States
  <2> QED  BY <1>6, <2>1 DEF JobInfoFails, system
<1>7. ASSUME NEW t \in Tests, WaitRaises(t)  PROVE TypeOK'
  BY <1>7 DEF WaitRaises, Fail, poll, system
<1>8. ASSUME NEW t \in Tests, Pull(t)  PROVE TypeOK'
  <2>1. Overlay(local[t], remote[t]) \in [Steps -> Files]
    BY OverlayType
  <2>2. local' \in [Tests -> [Steps -> Files]]
    BY <1>8, <2>1 DEF Pull
  <2>3. pc' \in [Tests -> Places]
    BY <1>8 DEF Pull, Fail
  <2>4. step' \in [Tests -> Steps] /\ state' \in [Tests -> States]
    BY <1>8 DEF Pull, Steps, States
  <2> QED  BY <1>8, <2>2, <2>3, <2>4 DEF Pull, poll, system
<1>9. ASSUME NEW asked \in SUBSET Tests, StartPoll(asked)  PROVE TypeOK'
  BY <1>9 DEF StartPoll, client, system
<1>10. CASE EndPoll
  <2>1. state' \in [Tests -> States]
    BY <1>10 DEF EndPoll, Updated
  <2>2. cancelling' \subseteq Tests
    BY <1>10 DEF EndPoll, MayCancel, PollInv, Queued
  <2>3. jobs' \in Jobs
    <3>1. PICK gone : jobs' = Scancelled(gone)
      BY <1>10 DEF EndPoll
    <3> QED  BY <3>1, ScancelledKeeps
  <2>4. pc' \in [Tests -> Places] /\ info' \in [Tests -> States]
    BY <1>10 DEF EndPoll, GiveUp, States
  <2>5. UNCHANGED <<step, cleaned, jobid, local, remote, earlier, dirty, lost>>
    BY <1>10 DEF EndPoll
  <2> QED  BY <2>1, <2>2, <2>3, <2>4, <2>5
<1>11. ASSUME NEW i \in Ids, Register(i) \/ Kill(i)  PROVE TypeOK'
  <2>1. jobs' \in Jobs
    BY <1>11, SetStEffect DEF Register, Kill, States, Ended
  <2> QED  BY <1>11, <2>1 DEF Register, Kill, client, poll
<1>12. ASSUME NEW i \in Ids, Start(i) \/ End(i)  PROVE TypeOK'
  <2>1. jobs[i].test \in Tests /\ jobs[i].step \in Steps
    BY <1>12 DEF IdInv, Jobs, Start, End
  <2>2. remote' \in [Tests -> [Steps -> Files]]
    BY <1>12, <2>1, FilesType, WriteType DEF Start, End
  <2>3. jobs' \in Jobs
    BY <1>12, SetStEffect DEF Start, End, States, Ended
  <2> QED  BY <1>12, <2>2, <2>3 DEF Start, End, client, poll
<1>13. ASSUME NEW t \in Tests, EarlierEnds(t)  PROVE TypeOK'
  <2>1. remote' \in [Tests -> [Steps -> Files]]
    BY <1>13, FilesType, WriteType DEF EarlierEnds
  <2> QED  BY <1>13, <2>1 DEF EarlierEnds, client, poll
<1>14. CASE UNCHANGED vars
  BY <1>14 DEF vars, client, poll, system
<1> QED  BY <1>1, <1>2, <1>3, <1>4, <1>5, <1>6, <1>7, <1>8, <1>9, <1>10, <1>11, <1>12, <1>13,
            <1>14 DEF Next, Submit, Wait, AskFor, Run, Terminated

-----------------------------------------------------------------------------
(* Ids. *)

\* The steps of a test that submit() and wait() take without a new id.
Goes(t) == \/ pc'[t] \in {pc[t], "failed"}
           \/ pc[t] \in Before /\ pc'[t] \in Before

\* What happens to a job that is there: its test and its step stay.
SameJob(i) == /\ jobs'[i].test = jobs[i].test /\ jobs'[i].step = jobs[i].step
              /\ jobs'[i].st = "none" <=> jobs[i].st = "none"

LEMMA IdKept ==
    ASSUME TypeOK, IdInv, UNCHANGED <<step, jobid, lost>>,
           \A t \in Tests : Goes(t), \A i \in Ids : SameJob(i)
    PROVE  IdInv'
<1>1. (\A t \in Tests : \A s \in Steps : jobid[t][s] # 0 =>
        /\ jobid[t][s] \notin lost /\ jobs[jobid[t][s]].st # "none"
        /\ jobs[jobid[t][s]].test = t /\ jobs[jobid[t][s]].step = s)'
  <2> SUFFICES ASSUME NEW t \in Tests, NEW s \in Steps, jobid[t][s] # 0
               PROVE  /\ jobid[t][s] \notin lost /\ jobs'[jobid[t][s]].st # "none"
                      /\ jobs'[jobid[t][s]].test = t /\ jobs'[jobid[t][s]].step = s
    OBVIOUS
  <2>1. jobid[t][s] \in Ids
    BY DEF TypeOK
  <2>2. SameJob(jobid[t][s])
    BY <2>1
  <2> QED  BY <2>2 DEF IdInv, SameJob
<1>2. (\A t \in Tests :
        /\ \A s \in Steps : s > step[t] => jobid[t][s] = 0
        /\ pc[t] \in Before => CurrentId(t) = 0
        /\ pc[t] \in {"queued", "done"} => CurrentId(t) # 0)'
  BY DEF IdInv, Goes, Before, CurrentId
<1>3. (\A i \in Ids : jobs[i].st # "none" =>
        /\ jobs[i].test \in Tests
        /\ i \notin lost => jobid[jobs[i].test][jobs[i].step] = i)'
  BY DEF IdInv, SameJob
<1>4. (\A i \in lost : jobs[i].st # "none")'
  BY DEF IdInv, TypeOK, SameJob
<1> QED  BY <1>1, <1>2, <1>3, <1>4 DEF IdInv

LEMMA IdStep == TypeOK /\ PollInv /\ IdInv /\ [Next]_vars => IdInv'
<1> SUFFICES ASSUME TypeOK, PollInv, IdInv, [Next]_vars  PROVE IdInv'
  OBVIOUS
<1>1. ASSUME NEW t \in Tests, Clean(t) \/ Stage(t)  PROVE IdInv'
  <2>1. \A u \in Tests : Goes(u)
    BY <1>1 DEF Clean, Stage, Fail, Goes, Before, TypeOK
  <2>2. \A i \in Ids : SameJob(i)
    BY <1>1 DEF Clean, Stage, SameJob
  <2> QED  BY <1>1, <2>1, <2>2, IdKept DEF Clean, Stage
<1>2. ASSUME NEW t \in Tests, NEW i \in Ids, SubmitReplies(t, i)  PROVE IdInv'
  <2>1. /\ pc[t] = "submitting" /\ jobs[i].st = "none"
        /\ jobs' = [jobs EXCEPT ![i] = [st |-> "new", test |-> t, step |-> step[t]]]
        /\ jobid' = [jobid EXCEPT ![t][step[t]] = i]
        /\ pc' = [pc EXCEPT ![t] = "queued"]
        /\ UNCHANGED <<step, lost>>
    BY <1>2 DEF SubmitReplies, Accept, Unused
  <2>2. i \notin lost /\ i # 0 /\ jobid[t][step[t]] = 0 /\ step[t] \in Steps
    BY <2>1, IdsAreNumbers DEF IdInv, Before, CurrentId, TypeOK
  <2>3. /\ jobid'[t][step[t]] = i
        /\ \A u \in Tests, s \in Steps : (u # t \/ s # step[t]) => jobid'[u][s] = jobid[u][s]
    BY <2>1, <2>2 DEF TypeOK
  <2>4. /\ jobs'[i] = [st |-> "new", test |-> t, step |-> step[t]]
        /\ \A j \in Ids : j # i => jobs'[j] = jobs[j]
    BY <2>1 DEF TypeOK, Jobs
  <2>5. (\A u \in Tests : \A s \in Steps : jobid[u][s] # 0 =>
          /\ jobid[u][s] \notin lost /\ jobs[jobid[u][s]].st # "none"
          /\ jobs[jobid[u][s]].test = u /\ jobs[jobid[u][s]].step = s)'
    BY <2>1, <2>2, <2>3, <2>4 DEF IdInv, TypeOK
  <2>6. (\A u \in Tests :
          /\ \A s \in Steps : s > step[u] => jobid[u][s] = 0
          /\ pc[u] \in Before => CurrentId(u) = 0
          /\ pc[u] \in {"queued", "done"} => CurrentId(u) # 0)'
    BY <2>1, <2>2, <2>3 DEF IdInv, TypeOK, Before, CurrentId, Steps
  <2>7. (\A j \in Ids : jobs[j].st # "none" =>
          /\ jobs[j].test \in Tests
          /\ j \notin lost => jobid[jobs[j].test][jobs[j].step] = j)'
    BY <2>1, <2>2, <2>3, <2>4, IdsAreNumbers DEF IdInv, TypeOK, Jobs
  <2>8. (\A j \in lost : jobs[j].st # "none")'
    BY <2>1, <2>4 DEF IdInv, TypeOK
  <2> QED  BY <2>5, <2>6, <2>7, <2>8 DEF IdInv
<1>3. ASSUME NEW t \in Tests, SubmitFails(t)  PROVE IdInv'
  <2>1. \A u \in Tests : Goes(u)
    BY <1>3 DEF SubmitFails, Fail, Goes, TypeOK
  <2>2. CASE UNCHANGED <<jobs, lost>>
    BY <1>3, <2>1, <2>2, IdKept DEF SubmitFails, SameJob
  <2>3. ASSUME NEW i \in Ids, Accept(t, i), lost' = lost \cup {i}  PROVE IdInv'
    <3>1. /\ jobs[i].st = "none" /\ step[t] \in Steps
          /\ jobs'[i] = [st |-> "new", test |-> t, step |-> step[t]]
          /\ \A j \in Ids : j # i => jobs'[j] = jobs[j]
          /\ UNCHANGED <<step, jobid>>
      BY <1>3, <2>3 DEF SubmitFails, Accept, Unused, TypeOK, Jobs
    <3>2. (\A u \in Tests : \A s \in Steps : jobid[u][s] # 0 =>
            /\ jobid[u][s] \notin lost /\ jobs[jobid[u][s]].st # "none"
            /\ jobs[jobid[u][s]].test = u /\ jobs[jobid[u][s]].step = s)'
      BY <2>3, <3>1 DEF IdInv, TypeOK
    <3>3. (\A u \in Tests :
            /\ \A s \in Steps : s > step[u] => jobid[u][s] = 0
            /\ pc[u] \in Before => CurrentId(u) = 0
            /\ pc[u] \in {"queued", "done"} => CurrentId(u) # 0)'
      BY <2>1, <3>1 DEF IdInv, Goes, Before, CurrentId
    <3>4. (\A j \in Ids : jobs[j].st # "none" =>
            /\ jobs[j].test \in Tests
            /\ j \notin lost => jobid[jobs[j].test][jobs[j].step] = j)'
      BY <2>3, <3>1 DEF IdInv
    <3>5. (\A j \in lost : jobs[j].st # "none")'
      BY <2>3, <3>1 DEF IdInv, TypeOK
    <3> QED  BY <3>2, <3>3, <3>4, <3>5 DEF IdInv
  <2> QED  BY <1>3, <2>2, <2>3 DEF SubmitFails
<1>4. ASSUME NEW t \in Tests, AskFor(t)  PROVE IdInv'
  <2>1. \A u \in Tests : Goes(u)
    BY <1>4 DEF AskFor, JobInfo, JobInfoFails, GiveUp, Goes, client
  <2> QED  BY <1>4, <2>1, IdKept DEF AskFor, JobInfo, JobInfoFails, SameJob, client, system
<1>5. ASSUME NEW t \in Tests, WaitRaises(t)  PROVE IdInv'
  BY <1>5, IdKept DEF WaitRaises, Fail, Goes, SameJob, system, TypeOK
<1>6. ASSUME NEW t \in Tests, Pull(t)  PROVE IdInv'
  <2>1. CASE step[t] < 2 /\ step' = [step EXCEPT ![t] = 2] /\ pc' = [pc EXCEPT ![t] = "ready"]
    <3>1. UNCHANGED <<jobs, jobid, lost>> /\ jobid[t][2] = 0
      BY <1>6, <2>1 DEF Pull, system, IdInv, TypeOK, Steps
    <3>2. (\A u \in Tests :
            /\ \A s \in Steps : s > step[u] => jobid[u][s] = 0
            /\ pc[u] \in Before => CurrentId(u) = 0
            /\ pc[u] \in {"queued", "done"} => CurrentId(u) # 0)'
      BY <2>1, <3>1 DEF IdInv, Before, CurrentId, TypeOK, Steps
    <3> QED  BY <3>1, <3>2 DEF IdInv
  <2>2. CASE pc' = [pc EXCEPT ![t] = "done"] /\ UNCHANGED step
    <3>1. UNCHANGED <<jobs, jobid, lost>> /\ pc[t] = "queued"
      BY <1>6 DEF Pull, system
    <3>2. (\A u \in Tests :
            /\ \A s \in Steps : s > step[u] => jobid[u][s] = 0
            /\ pc[u] \in Before => CurrentId(u) = 0
            /\ pc[u] \in {"queued", "done"} => CurrentId(u) # 0)'
      BY <2>2, <3>1 DEF IdInv, Before, CurrentId, TypeOK
    <3> QED  BY <3>1, <3>2 DEF IdInv
  <2>3. CASE Fail(t) /\ UNCHANGED step
    BY <1>6, <2>3, IdKept DEF Pull, Fail, Goes, SameJob, system, TypeOK
  <2> QED  BY <1>6, <2>1, <2>2, <2>3 DEF Pull
<1>7. ASSUME NEW asked \in SUBSET Tests, StartPoll(asked)  PROVE IdInv'
  BY <1>7, IdKept DEF StartPoll, client, system, Goes, SameJob
<1>8. CASE EndPoll
  <2>1. PICK gone : jobs' = Scancelled(gone)
    BY <1>8 DEF EndPoll
  <2>2. \A i \in Ids : SameJob(i)
    BY <2>1, ScancelledKeeps DEF SameJob
  <2>3. \A u \in Tests : Goes(u)
    BY <1>8 DEF EndPoll, GiveUp, Goes
  <2> QED  BY <1>8, <2>2, <2>3, IdKept DEF EndPoll
<1>9. ASSUME NEW i \in Ids, Register(i) \/ Run(i)  PROVE IdInv'
  <2>1. jobs[i].st # "none" /\ \E st \in (States \cup {"new"}) \ {"none"} : SetSt(i, st)
    BY <1>9 DEF Register, Run, Start, End, Kill, States, Ended
  <2>2. \A j \in Ids : SameJob(j)
    BY <2>1, SetStEffect DEF SameJob, TypeOK
  <2> QED  BY <1>9, <2>2, IdKept DEF Register, Run, Start, End, Kill, Goes, client
<1>10. ASSUME NEW t \in Tests, EarlierEnds(t)  PROVE IdInv'
  BY <1>10, IdKept DEF EarlierEnds, client, Goes, SameJob
<1>11. CASE UNCHANGED vars
  BY <1>11, IdKept DEF vars, client, system, Goes, SameJob
<1> QED  BY <1>1, <1>2, <1>3, <1>4, <1>5, <1>6, <1>7, <1>8, <1>9, <1>10, <1>11
         DEF Next, Submit, Wait, Terminated

-----------------------------------------------------------------------------
(* Ends of jobs. *)

LEMMA EndKept ==
    ASSUME TypeOK, PollInv, IdInv, EndInv, UNCHANGED <<step, jobid, state>>,
           \A t \in Tests : Goes(t),
           \A t \in polling' : info'[t] \in Ended => t \in polling /\ info'[t] = info[t],
           \A i \in Ids : JobEnded(i) => JobEnded(i)'
    PROVE  EndInv'
<1> SUFFICES ASSUME NEW t \in Tests
             PROVE  /\ pc'[t] \in Before => state[t] = "none"
                    /\ pc'[t] = "queued" /\ state[t] \in Ended => JobEnded(CurrentId(t))'
                    /\ t \in polling' /\ info'[t] \in Ended => JobEnded(CurrentId(t))'
                    /\ \A s \in Steps : (s < step[t] \/ pc'[t] = "done") /\ jobid[t][s] # 0
                                            => JobEnded(jobid[t][s])'
  BY DEF EndInv, CurrentId
<1>1. pc'[t] \in Before => state[t] = "none"
  BY DEF EndInv, Goes, Before
<1>2. pc[t] = "queued" => CurrentId(t) \in Ids /\ CurrentId(t)' = CurrentId(t)
  BY DEF TypeOK, IdInv, CurrentId
<1>3. pc'[t] = "queued" /\ state[t] \in Ended => JobEnded(CurrentId(t))'
  <2> HAVE pc'[t] = "queued" /\ state[t] \in Ended
  <2>1. pc[t] = "queued"
    BY DEF Goes, Before
  <2> QED  BY <1>2, <2>1 DEF EndInv, JobEnded
<1>4. t \in polling' /\ info'[t] \in Ended => JobEnded(CurrentId(t))'
  <2> HAVE t \in polling' /\ info'[t] \in Ended
  <2>1. t \in polling /\ info[t] \in Ended
    OBVIOUS
  <2>2. pc[t] = "queued"
    BY <2>1 DEF PollInv, Queued
  <2> QED  BY <1>2, <2>1, <2>2 DEF EndInv, JobEnded
<1>5. ASSUME NEW s \in Steps, s < step[t] \/ pc'[t] = "done", jobid[t][s] # 0
      PROVE  JobEnded(jobid[t][s])'
  <2>1. JobEnded(jobid[t][s])
    BY <1>5 DEF EndInv, Goes, Before
  <2> QED  BY <1>5, <2>1 DEF TypeOK, JobEnded
<1> QED  BY <1>1, <1>3, <1>4, <1>5

\* Slurm ends jobs and never brings one back.
LEMMA JobsStayEnded ==
    ASSUME TypeOK, IdInv, [Next]_vars
    PROVE  \A i \in Ids : JobEnded(i) => jobs'[i] = jobs[i]
<1> USE DEF JobEnded, Ended
<1>1. CASE UNCHANGED jobs
  BY <1>1
<1>2. ASSUME NEW t \in Tests, NEW i \in Ids, Accept(t, i)
      PROVE  \A j \in Ids : JobEnded(j) => jobs'[j] = jobs[j]
  BY <1>2 DEF Accept, Unused, TypeOK, Jobs
<1>3. ASSUME NEW gone, jobs' = Scancelled(gone)
      PROVE  \A j \in Ids : JobEnded(j) => jobs'[j] = jobs[j]
  BY <1>3 DEF Scancelled
<1>4. ASSUME NEW i \in Ids, Register(i) \/ Run(i)
      PROVE  \A j \in Ids : JobEnded(j) => jobs'[j] = jobs[j]
  <2>1. ~JobEnded(i) /\ \E st \in States : SetSt(i, st)
    BY <1>4 DEF Register, Run, Start, End, Kill, States
  <2> QED  BY <2>1, SetStEffect DEF TypeOK
<1>5. CASE EndPoll
  BY <1>3, <1>5 DEF EndPoll
<1>6. ASSUME NEW t \in Tests, Clean(t) \/ Stage(t) \/ Submit(t) \/ AskFor(t) \/ Wait(t)
      PROVE  UNCHANGED jobs \/ \E i \in Ids : Accept(t, i)
  BY <1>6 DEF Clean, Stage, Submit, SubmitReplies, SubmitFails, AskFor, JobInfo, JobInfoFails,
              Wait, WaitRaises, Pull, system
<1> QED  BY <1>1, <1>2, <1>4, <1>5, <1>6 DEF Next, StartPoll, EarlierEnds, Terminated, vars, system

LEMMA EndStep == TypeOK /\ PollInv /\ IdInv /\ EndInv /\ [Next]_vars => EndInv'
<1> SUFFICES ASSUME TypeOK, PollInv, IdInv, EndInv, [Next]_vars  PROVE EndInv'
  OBVIOUS
<1>0. \A i \in Ids : JobEnded(i) => jobs'[i] = jobs[i] /\ JobEnded(i)'
  BY JobsStayEnded DEF JobEnded
<1>1. ASSUME NEW t \in Tests, Clean(t) \/ Stage(t) \/ SubmitFails(t) \/ WaitRaises(t)
      PROVE EndInv'
  <2>1. \A u \in Tests : Goes(u)
    BY <1>1 DEF Clean, Stage, SubmitFails, WaitRaises, Fail, Goes, Before, TypeOK
  <2> QED  BY <1>0, <1>1, <2>1, EndKept DEF Clean, Stage, SubmitFails, WaitRaises, poll
<1>2. ASSUME NEW t \in Tests, NEW i \in Ids, SubmitReplies(t, i)  PROVE EndInv'
  <2>1. /\ pc[t] = "submitting" /\ pc' = [pc EXCEPT ![t] = "queued"]
        /\ jobid' = [jobid EXCEPT ![t][step[t]] = i]
        /\ UNCHANGED <<step, state, polling, info>>
    BY <1>2 DEF SubmitReplies, poll
  <2>2. state[t] = "none" /\ t \notin polling
    BY <2>1 DEF EndInv, PollInv, Queued, Before
  <2>3. /\ \A u \in Tests, s \in Steps : (u # t \/ s # step[t]) => jobid'[u][s] = jobid[u][s]
        /\ \A u \in Tests : u # t => CurrentId(u)' = CurrentId(u) /\ pc'[u] = pc[u]
        /\ pc'[t] = "queued"
    BY <2>1 DEF TypeOK, CurrentId
  <2> SUFFICES ASSUME NEW u \in Tests
               PROVE  /\ pc'[u] \in Before => state'[u] = "none"
                      /\ pc'[u] = "queued" /\ state'[u] \in Ended => JobEnded(CurrentId(u))'
                      /\ u \in polling' /\ info'[u] \in Ended => JobEnded(CurrentId(u))'
                      /\ \A s \in Steps : (s < step'[u] \/ pc'[u] = "done") /\ jobid'[u][s] # 0
                                              => JobEnded(jobid[u][s])'
    BY DEF EndInv
  <2>4. CASE u = t
    <3>1. \A s \in Steps : s < step[t] => s # step[t]
      BY DEF TypeOK, Steps
    <3>4. \A s \in Steps : s < step[t] => jobid'[t][s] = jobid[t][s]
      BY <2>3, <3>1
    <3>2. ASSUME NEW s \in Steps, s < step[t], jobid[t][s] # 0
          PROVE  jobs'[jobid[t][s]].st \in Ended
      <4>1. jobid[t][s] \in Ids
        BY <3>2 DEF TypeOK
      <4>2. JobEnded(jobid[t][s])
        BY <3>2 DEF EndInv
      <4> QED  BY <1>0, <4>1, <4>2 DEF JobEnded
    <3> QED  BY <2>1, <2>2, <2>3, <2>4, <3>4, <3>2 DEF Before, Ended, JobEnded
  <2>5. CASE u # t
    <3>1. pc[u] = "queued" => CurrentId(u) \in Ids
      BY DEF TypeOK, IdInv, CurrentId
    <3>2. u \in polling => pc[u] = "queued"
      BY DEF PollInv, Queued
    <3>3. \A s \in Steps : (s < step[u] \/ pc[u] = "done") /\ jobid[u][s] # 0
                              => jobs'[jobid[u][s]].st \in Ended
      BY <1>0 DEF EndInv, TypeOK, JobEnded
    <3> QED  BY <1>0, <2>1, <2>3, <2>5, <3>1, <3>2, <3>3 DEF EndInv, JobEnded
  <2> QED  BY <2>4, <2>5
<1>3. ASSUME NEW t \in Tests, JobInfo(t)  PROVE EndInv'
  <2>1. t \in polling /\ pc[t] = "queued"
    BY <1>3 DEF JobInfo, PollInv, Queued
  <2>2. CurrentId(t) \in Ids
    BY <2>1 DEF IdInv, TypeOK, CurrentId
  <2>3. Answer(CurrentId(t)) \in Ended => JobEnded(CurrentId(t))
    BY DEF Answer, JobEnded, Ended
  <2>4. UNCHANGED <<pc, step, jobid, state, polling, jobs>>
    BY <1>3 DEF JobInfo, client, system
  <2>5. info' = [info EXCEPT ![t] = Answer(CurrentId(t))]
    BY <1>3 DEF JobInfo
  <2>6. \A u \in Tests : u \in polling /\ info'[u] \in Ended => JobEnded(CurrentId(u))
    BY <2>3, <2>5 DEF EndInv, TypeOK
  <2> QED  BY <2>4, <2>6 DEF EndInv, JobEnded, CurrentId
<1>4. ASSUME NEW t \in Tests, JobInfoFails(t)  PROVE EndInv'
  <2>1. \A u \in Tests : Goes(u)
    BY <1>4 DEF JobInfoFails, GiveUp, Goes
  <2> QED  BY <1>0, <1>4, <2>1, EndKept DEF JobInfoFails, GiveUp
<1>5. ASSUME NEW t \in Tests, Pull(t)  PROVE EndInv'
  <2>1. /\ pc[t] = "queued" /\ state[t] \in Ended /\ t \notin polling
        /\ UNCHANGED <<jobid, polling, info, jobs>>
    BY <1>5 DEF Pull, Finished, Busy, poll, system
  <2>2. JobEnded(CurrentId(t))
    BY <2>1 DEF EndInv
  <2>3. \A s \in Steps : s <= step[t] /\ jobid[t][s] # 0 => JobEnded(jobid[t][s])
    BY <2>2 DEF EndInv, CurrentId, TypeOK, Steps
  <2>4. \A s \in Steps : jobid[t][s] # 0 => JobEnded(jobid[t][s])
    BY <2>3 DEF IdInv, TypeOK, Steps
  <2>5. /\ \A u \in Tests : u # t =>
             pc'[u] = pc[u] /\ state'[u] = state[u] /\ step'[u] = step[u]
        /\ \/ pc'[t] \in Before /\ state'[t] = "none"
           \/ pc'[t] \notin Before \cup {"queued"}
    BY <1>5 DEF Pull, Fail, TypeOK, Before
  <2> SUFFICES ASSUME NEW u \in Tests
               PROVE  /\ pc'[u] \in Before => state'[u] = "none"
                      /\ pc'[u] = "queued" /\ state'[u] \in Ended => JobEnded(CurrentId(u))'
                      /\ u \in polling' /\ info'[u] \in Ended => JobEnded(CurrentId(u))'
                      /\ \A s \in Steps : (s < step'[u] \/ pc'[u] = "done") /\ jobid'[u][s] # 0
                                              => JobEnded(jobid[u][s])'
    BY DEF EndInv
  <2>6. CASE u = t
    BY <2>1, <2>4, <2>5, <2>6 DEF Before, JobEnded
  <2>7. CASE u # t
    BY <2>1, <2>5, <2>7 DEF EndInv, JobEnded, CurrentId
  <2> QED  BY <2>6, <2>7
<1>6. ASSUME NEW asked \in SUBSET Tests, StartPoll(asked)  PROVE EndInv'
  <2>1. \A u \in Tests : info[u] = "none"
    BY <1>6 DEF StartPoll, Busy, PollInv
  <2>2. \A u \in polling' : info'[u] \notin Ended
    BY <1>6, <2>1 DEF StartPoll, Ended
  <2> QED  BY <1>0, <1>6, <2>2, EndKept DEF StartPoll, client, Goes
<1>7. CASE EndPoll
  <2>1. /\ state' = Updated /\ UNCHANGED <<step, jobid>> /\ polling' = {}
        /\ \A u \in Tests : pc'[u] \in {pc[u], "failed"}
    BY <1>7 DEF EndPoll, GiveUp
  <2>2. \A u \in Tests : pc[u] = "queued" => CurrentId(u) \in Ids /\ CurrentId(u)' = CurrentId(u)
    BY <2>1 DEF TypeOK, IdInv, CurrentId
  <2>3. \A u \in Tests : pc[u] = "queued" /\ Updated[u] \in Ended => JobEnded(CurrentId(u))
    BY DEF Updated, EndInv
  <2>4. \A u \in Tests : pc[u] # "queued" => Updated[u] = state[u]
    BY DEF Updated, PollInv, Queued
  <2> SUFFICES ASSUME NEW u \in Tests
               PROVE  /\ pc'[u] \in Before => state'[u] = "none"
                      /\ pc'[u] = "queued" /\ state'[u] \in Ended => JobEnded(CurrentId(u))'
                      /\ u \in polling' /\ info'[u] \in Ended => JobEnded(CurrentId(u))'
                      /\ \A s \in Steps : (s < step'[u] \/ pc'[u] = "done") /\ jobid'[u][s] # 0
                                              => JobEnded(jobid[u][s])'
    BY DEF EndInv
  <2>5. pc'[u] \in Before => state'[u] = "none"
    BY <2>1, <2>4 DEF EndInv, Before
  <2>6. pc'[u] = "queued" /\ state'[u] \in Ended => JobEnded(CurrentId(u))'
    BY <1>0, <2>1, <2>2, <2>3 DEF JobEnded
  <2>7. \A s \in Steps : (s < step[u] \/ pc[u] = "done") /\ jobid[u][s] # 0
                            => jobs'[jobid[u][s]].st \in Ended
    BY <1>0 DEF EndInv, TypeOK, JobEnded
  <2> QED  BY <2>1, <2>5, <2>6, <2>7 DEF JobEnded
<1>8. ASSUME NEW i \in Ids, Register(i) \/ Run(i)  PROVE EndInv'
  BY <1>0, <1>8, EndKept DEF Register, Run, Start, End, Kill, client, poll, Goes
<1>9. ASSUME NEW t \in Tests, EarlierEnds(t)  PROVE EndInv'
  BY <1>0, <1>9, EndKept DEF EarlierEnds, client, poll, Goes
<1>10. CASE UNCHANGED vars
  BY <1>0, <1>10, EndKept DEF vars, client, poll, Goes
<1> QED  BY <1>1, <1>2, <1>3, <1>4, <1>5, <1>6, <1>7, <1>8, <1>9, <1>10
         DEF Next, Submit, Wait, AskFor, Terminated

-----------------------------------------------------------------------------
(* Cancelled jobs. *)

LEMMA CancelStep == TypeOK /\ PollInv /\ NoCancelledResult /\ [Next]_vars => NoCancelledResult'
<1> SUFFICES ASSUME TypeOK, PollInv, NoCancelledResult, [Next]_vars  PROVE NoCancelledResult'
  OBVIOUS
<1> USE DEF NoCancelledResult, TypeOK
<1>1. ASSUME NEW t \in Tests, Clean(t) \/ Stage(t)  PROVE NoCancelledResult'
  BY <1>1 DEF Clean, Stage, Fail
<1>2. ASSUME NEW t \in Tests, Submit(t)  PROVE NoCancelledResult'
  BY <1>2 DEF Submit, SubmitReplies, SubmitFails, Fail
<1>3. ASSUME NEW t \in Tests, AskFor(t)  PROVE NoCancelledResult'
  BY <1>3 DEF AskFor, JobInfo, JobInfoFails, GiveUp, client
<1>4. ASSUME NEW t \in Tests, Wait(t)  PROVE NoCancelledResult'
  BY <1>4 DEF Wait, WaitRaises, Pull, Finished, Fail
<1>5. CASE EndPoll
  <2>1. \A t \in cancelling' : t \in cancelling \/ pc[t] = "queued"
    BY <1>5 DEF EndPoll, MayCancel, PollInv, Queued
  <2>2. \A t \in Tests : pc'[t] \in {pc[t], "failed"}
    BY <1>5 DEF EndPoll, GiveUp
  <2>3. cancelling' \subseteq Tests
    BY <1>5 DEF EndPoll, MayCancel, PollInv, Queued
  <2> QED  BY <2>1, <2>2, <2>3
<1>6. ASSUME UNCHANGED <<pc, cancelling>>  PROVE NoCancelledResult'
  BY <1>6
<1>7. ASSUME NEW asked, StartPoll(asked)  PROVE UNCHANGED <<pc, cancelling>>
  BY <1>7 DEF StartPoll, client
<1>8. ASSUME NEW i \in Ids, Register(i) \/ Run(i)  PROVE UNCHANGED <<pc, cancelling>>
  BY <1>8 DEF Register, Run, Start, End, Kill, client
<1> QED  BY <1>1, <1>2, <1>3, <1>4, <1>5, <1>6, <1>7, <1>8
         DEF Next, EarlierEnds, Terminated, vars, client

-----------------------------------------------------------------------------
(* Files. *)

\* What FileInv says of one test.
DirInv(t) ==
    /\ t \notin cleaned =>
        /\ pc[t] \in {"ready", "failed"}
        /\ \A s \in Steps : jobid[t][s] = 0 /\ local[t][s] = NoFile
    /\ t \in cleaned /\ Undisturbed(t) =>
        /\ t \notin earlier
        /\ \A s \in Steps :
            /\ Own(t, s, remote[t][s]) /\ WholeIfCompleted(t, s, remote[t][s])
            /\ Own(t, s, local[t][s])
            /\ local[t][s] # NoFile =>
                JobEnded(jobid[t][s]) /\ WholeIfCompleted(t, s, local[t][s])
            /\ pc[t] = "done" => WholeIfCompleted(t, s, local[t][s])

LEMMA FileInvIsDirInv == /\ FileInv <=> \A t \in Tests : DirInv(t)
                         /\ FileInv' <=> \A t \in Tests : DirInv(t)'
  BY DEF FileInv, DirInv

\* The tests whose submissions were lost stay the same, or grow in number.
LEMMA LostTestsGrow ==
    ASSUME TypeOK, IdInv, lost \subseteq lost',
           \A i \in Ids : jobs[i].st # "none" => jobs'[i].test = jobs[i].test
    PROVE  LostTests \subseteq LostTests'
<1> SUFFICES ASSUME NEW i \in lost  PROVE jobs[i].test \in LostTests'
  BY DEF LostTests
<1>1. i \in lost' /\ jobs'[i].test = jobs[i].test
  BY DEF IdInv, TypeOK
<1> QED  BY <1>1 DEF LostTests

\* A step that leaves the files of a test, and its jobs, as they are; a job may
\* end in another way than by completing.
LEMMA DirKept ==
    ASSUME TypeOK, IdInv, NEW t \in Tests, DirInv(t), LostTests \subseteq LostTests',
           t \in cleaned <=> t \in cleaned', earlier' \subseteq earlier, dirty \subseteq dirty',
           UNCHANGED <<jobid[t], local[t], remote[t]>>,
           t \notin cleaned => pc'[t] \in {pc[t], "failed"}, pc'[t] = "done" => pc[t] = "done",
           \A i \in Ids : jobs[i].st # "none" /\ jobs[i].test = t =>
                /\ jobs'[i].st = "completed" => jobs[i].st = "completed"
                /\ JobEnded(i) => JobEnded(i)'
    PROVE  DirInv(t)'
<1>1. Undisturbed(t)' => Undisturbed(t)
  BY DEF Undisturbed
<1>2. (t \notin cleaned =>
        /\ pc[t] \in {"ready", "failed"}
        /\ \A s \in Steps : jobid[t][s] = 0 /\ local[t][s] = NoFile)'
  BY DEF DirInv
<1>3. ASSUME t \in cleaned', Undisturbed(t)'
      PROVE (/\ t \notin earlier
             /\ \A s \in Steps :
                /\ Own(t, s, remote[t][s]) /\ WholeIfCompleted(t, s, remote[t][s])
                /\ Own(t, s, local[t][s])
                /\ local[t][s] # NoFile =>
                    JobEnded(jobid[t][s]) /\ WholeIfCompleted(t, s, local[t][s])
                /\ pc[t] = "done" => WholeIfCompleted(t, s, local[t][s]))'
  <2>1. t \notin earlier'
    BY <1>1, <1>3 DEF DirInv
  <2>2. ASSUME NEW s \in Steps
        PROVE (/\ Own(t, s, remote[t][s]) /\ WholeIfCompleted(t, s, remote[t][s])
               /\ Own(t, s, local[t][s])
               /\ local[t][s] # NoFile =>
                   JobEnded(jobid[t][s]) /\ WholeIfCompleted(t, s, local[t][s])
               /\ pc[t] = "done" => WholeIfCompleted(t, s, local[t][s]))'
    <3>1. /\ Own(t, s, remote[t][s]) /\ WholeIfCompleted(t, s, remote[t][s])
          /\ Own(t, s, local[t][s])
          /\ local[t][s] # NoFile =>
              JobEnded(jobid[t][s]) /\ WholeIfCompleted(t, s, local[t][s])
          /\ pc[t] = "done" => WholeIfCompleted(t, s, local[t][s])
      BY <1>1, <1>3 DEF DirInv
    <3>2. jobid[t][s] # 0 => /\ jobid[t][s] \in Ids /\ jobs[jobid[t][s]].st # "none"
                             /\ jobs[jobid[t][s]].test = t
      BY DEF IdInv, TypeOK
    <3>3. jobid[t][s] # 0 =>
            /\ jobs'[jobid[t][s]].st = "completed" => jobs[jobid[t][s]].st = "completed"
            /\ jobs[jobid[t][s]].st \in Ended => jobs'[jobid[t][s]].st \in Ended
      BY <3>2 DEF JobEnded
    <3> QED  BY <3>1, <3>3 DEF Own, WholeIfCompleted, JobEnded
  <2> QED  BY <2>1, <2>2
<1> QED  BY <1>2, <1>3 DEF DirInv

\* Submissions apart, a step changes nothing of a job but its state.
LEMMA JobsKeepTests ==
    ASSUME TypeOK, IdInv, [Next]_vars
    PROVE  /\ lost \subseteq lost'
           /\ \A i \in Ids : jobs[i].st # "none" => jobs'[i].test = jobs[i].test
<1>1. CASE UNCHANGED <<jobs, lost>>
  BY <1>1
<1>2. ASSUME NEW t \in Tests, Submit(t)
      PROVE  /\ lost \subseteq lost'
             /\ \A i \in Ids : jobs[i].st # "none" => jobs'[i].test = jobs[i].test
  BY <1>2 DEF Submit, SubmitReplies, SubmitFails, Accept, Unused, TypeOK, Jobs
<1>3. CASE EndPoll
  <2>1. PICK gone : jobs' = Scancelled(gone)
    BY <1>3 DEF EndPoll
  <2> QED  BY <1>3, <2>1, ScancelledKeeps DEF EndPoll
<1>4. ASSUME NEW i \in Ids, Register(i) \/ Run(i)
      PROVE  /\ lost \subseteq lost'
             /\ \A j \in Ids : jobs[j].st # "none" => jobs'[j].test = jobs[j].test
  <2>1. \E st \in States : SetSt(i, st) /\ UNCHANGED lost
    BY <1>4 DEF Register, Run, Start, End, Kill, States, Ended
  <2> QED  BY <2>1, SetStEffect DEF TypeOK
<1>5. ASSUME NEW t \in Tests, Clean(t) \/ Stage(t) \/ AskFor(t) \/ Wait(t)
      PROVE  UNCHANGED <<jobs, lost>>
  BY <1>5 DEF Clean, Stage, AskFor, JobInfo, JobInfoFails, Wait, WaitRaises, Pull, system
<1> QED  BY <1>1, <1>2, <1>3, <1>4, <1>5 DEF Next, StartPoll, EarlierEnds, Terminated, vars, system

\* Once wait() finds the current job ended, all the jobs of the test have.
LEMMA AllEnded ==
    ASSUME TypeOK, IdInv, EndInv, NEW t \in Tests, pc[t] = "queued", state[t] \in Ended
    PROVE  \A s \in Steps : jobid[t][s] # 0 => JobEnded(jobid[t][s])
<1>1. JobEnded(CurrentId(t))
  BY DEF EndInv
<1>2. \A s \in Steps : s <= step[t] /\ jobid[t][s] # 0 => JobEnded(jobid[t][s])
  BY <1>1 DEF EndInv, CurrentId, TypeOK, Steps
<1> QED  BY <1>2 DEF IdInv, TypeOK, Steps

LEMMA FileStep ==
    TypeOK /\ PollInv /\ IdInv /\ EndInv /\ FileInv /\ [Next]_vars => FileInv'
<1> SUFFICES ASSUME TypeOK, PollInv, IdInv, EndInv, FileInv, [Next]_vars, NEW u \in Tests
             PROVE  DirInv(u)'
  BY FileInvIsDirInv
<1>1. DirInv(u)
  BY FileInvIsDirInv
<1>2. LostTests \subseteq LostTests'
  BY JobsKeepTests, LostTestsGrow
<1>3. \A i \in Ids : JobEnded(i) => jobs'[i] = jobs[i] /\ JobEnded(i)'
  BY JobsStayEnded DEF JobEnded
<1>4. Undisturbed(u)' /\ dirty \subseteq dirty' => Undisturbed(u)
  BY <1>2 DEF Undisturbed
<1>5. pc[u] \in Places /\ (u \notin cleaned => pc[u] \in {"ready", "failed"})
  BY <1>1 DEF DirInv, TypeOK
<1>6. ASSUME UNCHANGED <<cleaned, earlier, dirty, jobid, local, remote>>,
             pc'[u] \in {pc[u], "failed"},
             \A i \in Ids : jobs[i].st # "none" /\ jobs[i].test = u =>
                 (jobs'[i].st = "completed" => jobs[i].st = "completed")
      PROVE  DirInv(u)'
  BY <1>1, <1>2, <1>3, <1>6, DirKept
<1>7. ASSUME NEW t \in Tests, Clean(t)  PROVE DirInv(u)'
  <2>1. UNCHANGED <<jobid, local, jobs, earlier>> /\ dirty \subseteq dirty'
    BY <1>7 DEF Clean
  <2>2. CASE u # t \/ t \in cleaned
    <3>1. /\ UNCHANGED remote[u] /\ (u \in cleaned <=> u \in cleaned')
          /\ u \notin cleaned => pc'[u] = pc[u]
          /\ pc'[u] = "done" => pc[u] = "done"
      BY <1>7, <2>2 DEF Clean, TypeOK
    <3> QED  BY <1>1, <1>2, <1>3, <2>1, <3>1, DirKept
  <2>3. CASE u = t /\ t \notin cleaned
    <3>1. \A s \in Steps : jobid[t][s] = 0 /\ local[t][s] = NoFile
      BY <1>1, <2>3 DEF DirInv
    <3>2. pc'[t] = "staging" /\ t \in cleaned'
      BY <1>7, <2>3 DEF Clean, TypeOK
    <3>3. t \notin dirty' => t \notin earlier /\ \A s \in Steps : remote'[t][s] = NoFile
      BY <1>7, <2>3 DEF Clean, TypeOK, EmptyDir
    <3> QED  BY <2>1, <2>3, <3>1, <3>2, <3>3
             DEF DirInv, Undisturbed, Own, WholeIfCompleted
  <2> QED  BY <2>2, <2>3
<1>8. ASSUME NEW t \in Tests, Stage(t)  PROVE DirInv(u)'
  <2>1. /\ UNCHANGED <<cleaned, jobid, local, jobs, earlier, dirty, lost>>
        /\ u # t => UNCHANGED <<pc[u], remote[u]>>
        /\ pc[t] = "staging" /\ pc'[t] \in {"submitting", "failed"}
    BY <1>8 DEF Stage, Fail, TypeOK
  <2>2. CASE u # t \/ UNCHANGED remote
    BY <1>1, <1>2, <1>3, <1>5, <2>1, <2>2, DirKept
  <2>3. CASE u = t /\ remote' = [remote EXCEPT ![t] = Overlay(remote[t], local[t])]
    <3>1. \A s \in Steps : remote'[t][s] = IF local[t][s] = NoFile THEN remote[t][s] ELSE local[t][s]
      <4>1. remote'[t] = Overlay(remote[t], local[t])
        BY <2>3 DEF TypeOK
      <4>2. remote[t] \in [Steps -> Files] /\ local[t] \in [Steps -> Files]
        BY DEF TypeOK
      <4> QED  BY <4>1, <4>2, OverlayType
    <3>2. t \in cleaned /\ (Undisturbed(t)' <=> Undisturbed(t))
      BY <1>5, <2>1, <2>3 DEF Undisturbed, LostTests
    <3> QED  BY <1>1, <2>1, <2>3, <3>1, <3>2 DEF DirInv, Own, WholeIfCompleted, JobEnded
  <2> QED  BY <1>8, <2>2, <2>3 DEF Stage
<1>9. ASSUME NEW t \in Tests, NEW i \in Ids, SubmitReplies(t, i)  PROVE DirInv(u)'
  <2>1. /\ UNCHANGED <<cleaned, local, remote, earlier, dirty, step>>
        /\ pc[t] = "submitting" /\ jobs[i].st = "none"
        /\ pc' = [pc EXCEPT ![t] = "queued"]
        /\ jobid' = [jobid EXCEPT ![t][step[t]] = i]
        /\ jobs' = [jobs EXCEPT ![i] = [st |-> "new", test |-> t, step |-> step[t]]]
    BY <1>9 DEF SubmitReplies, Accept, Unused
  <2>2. \A j \in Ids : j # i => jobs'[j] = jobs[j]
    BY <2>1 DEF TypeOK, Jobs
  <2>3. CASE u # t
    <3>1. UNCHANGED <<jobid[u], pc[u]>>
      BY <2>1, <2>3 DEF TypeOK
    <3> QED  BY <1>1, <1>2, <1>3, <2>1, <2>2, <3>1, DirKept
  <2>4. CASE u = t
    <3>1. t \in cleaned /\ step[t] \in Steps /\ jobid[t][step[t]] = 0
      BY <1>5, <2>1, <2>4 DEF TypeOK, IdInv, Before, CurrentId
    <3>2. /\ pc'[t] = "queued" /\ jobid'[t][step[t]] = i /\ jobs'[i].st = "new"
          /\ \A s \in Steps : s # step[t] => jobid'[t][s] = jobid[t][s]
      BY <2>1, <3>1 DEF TypeOK, Jobs
    <3>3. ASSUME Undisturbed(t)', NEW s \in Steps
          PROVE (/\ Own(t, s, remote[t][s]) /\ WholeIfCompleted(t, s, remote[t][s])
                 /\ Own(t, s, local[t][s])
                 /\ local[t][s] # NoFile =>
                     JobEnded(jobid[t][s]) /\ WholeIfCompleted(t, s, local[t][s]))'
      <4>1. /\ Own(t, s, remote[t][s]) /\ WholeIfCompleted(t, s, remote[t][s])
            /\ Own(t, s, local[t][s])
            /\ local[t][s] # NoFile =>
                JobEnded(jobid[t][s]) /\ WholeIfCompleted(t, s, local[t][s])
        BY <1>1, <1>4, <2>1, <2>4, <3>1, <3>3 DEF DirInv
      <4>2. CASE s = step[t]
        BY <2>1, <3>1, <3>2, <4>1, <4>2 DEF Own, WholeIfCompleted
      <4>3. CASE s # step[t]
        <5>1. jobid[t][s] # 0 => jobid[t][s] \in Ids /\ jobid[t][s] # i
          BY <2>1 DEF IdInv, TypeOK
        <5> QED  BY <2>1, <2>2, <3>2, <4>1, <4>3, <5>1 DEF Own, WholeIfCompleted, JobEnded
      <4> QED  BY <4>2, <4>3
    <3>4. t \notin earlier' \/ ~Undisturbed(t)'
      BY <1>1, <1>4, <2>1, <2>4, <3>1 DEF DirInv
    <3> QED  BY <2>1, <2>4, <3>1, <3>2, <3>3, <3>4 DEF DirInv
  <2> QED  BY <2>3, <2>4
<1>10. ASSUME NEW t \in Tests, SubmitFails(t)  PROVE DirInv(u)'
  <2>1. /\ UNCHANGED <<cleaned, earlier, dirty, jobid, local, remote>>
        /\ pc'[u] \in {pc[u], "failed"}
    BY <1>10 DEF SubmitFails, Fail, TypeOK
  <2>2. \A i \in Ids : jobs[i].st # "none" => jobs'[i] = jobs[i]
    BY <1>10 DEF SubmitFails, Accept, Unused, TypeOK, Jobs
  <2> QED  BY <1>6, <2>1, <2>2
<1>11. ASSUME NEW t \in Tests, AskFor(t) \/ WaitRaises(t)  PROVE DirInv(u)'
  <2>1. /\ UNCHANGED <<cleaned, earlier, dirty, jobid, local, remote, jobs>>
        /\ pc'[u] \in {pc[u], "failed"}
    BY <1>11 DEF AskFor, JobInfo, JobInfoFails, GiveUp, WaitRaises, Fail, client, system, TypeOK
  <2> QED  BY <1>6, <2>1
<1>12. ASSUME NEW t \in Tests, Pull(t)  PROVE DirInv(u)'
  <2>1. /\ UNCHANGED <<cleaned, jobid, remote, jobs, earlier, dirty, lost>>
        /\ u # t => UNCHANGED <<pc[u], local[u]>>
        /\ pc[t] = "queued" /\ state[t] \in Ended
    BY <1>12 DEF Pull, Fail, Finished, system, TypeOK
  <2>2. CASE u # t \/ (UNCHANGED local /\ Fail(t))
    <3>1. UNCHANGED <<pc[u], local[u]>> \/ (pc'[u] = "failed" /\ UNCHANGED local[u])
      BY <2>1, <2>2 DEF Fail, TypeOK
    <3> QED  BY <1>1, <1>2, <1>3, <2>1, <3>1, DirKept
  <2>3. CASE u = t /\ local' = [local EXCEPT ![t] = Overlay(local[t], remote[t])]
    <3>1. \A s \in Steps : local'[t][s] = IF remote[t][s] = NoFile THEN local[t][s] ELSE remote[t][s]
      <4>1. local'[t] = Overlay(local[t], remote[t])
        BY <2>3 DEF TypeOK
      <4>2. local[t] \in [Steps -> Files] /\ remote[t] \in [Steps -> Files]
        BY DEF TypeOK
      <4> QED  BY <4>1, <4>2, OverlayType
    <3>2. t \in cleaned /\ (Undisturbed(t)' <=> Undisturbed(t))
      BY <1>5, <2>1, <2>3 DEF Undisturbed, LostTests
    <3>3. \A s \in Steps : jobid[t][s] # 0 => JobEnded(jobid[t][s])
      BY <2>1, AllEnded
    <3>4. ASSUME Undisturbed(t), NEW s \in Steps
          PROVE (/\ Own(t, s, remote[t][s]) /\ WholeIfCompleted(t, s, remote[t][s])
                 /\ Own(t, s, local[t][s])
                 /\ local[t][s] # NoFile => JobEnded(jobid[t][s])
                 /\ WholeIfCompleted(t, s, local[t][s]))'
      <4>1. /\ Own(t, s, remote[t][s]) /\ WholeIfCompleted(t, s, remote[t][s])
            /\ Own(t, s, local[t][s])
        BY <1>1, <2>3, <3>2, <3>4 DEF DirInv
      <4>2. jobid[t][s] # 0 => Output(jobid[t][s], TRUE) # NoFile
        BY IdsAreNumbers DEF Output, NoFile
      <4> QED  BY <2>1, <3>1, <3>3, <4>1, <4>2 DEF Own, WholeIfCompleted, JobEnded
    <3> QED  BY <1>1, <2>1, <2>3, <3>2, <3>4 DEF DirInv
  <2> QED  BY <1>12, <2>2, <2>3 DEF Pull
<1>13. ASSUME NEW asked \in SUBSET Tests, StartPoll(asked)  PROVE DirInv(u)'
  BY <1>6, <1>13 DEF StartPoll, client, system
<1>14. CASE EndPoll
  <2>1. PICK gone : jobs' = Scancelled(gone)
    BY <1>14 DEF EndPoll
  <2>2. \A i \in Ids : jobs'[i].st = "completed" => jobs[i].st = "completed"
    BY <2>1, ScancelledKeeps
  <2>3. pc'[u] \in {pc[u], "failed"}
    BY <1>14 DEF EndPoll, GiveUp
  <2> QED  BY <1>6, <1>14, <2>2, <2>3 DEF EndPoll
<1>15. ASSUME NEW i \in Ids, Register(i) \/ Kill(i)  PROVE DirInv(u)'
  <2>1. \A j \in Ids : jobs'[j].st = "completed" => jobs[j].st = "completed"
    BY <1>15, SetStEffect DEF Register, Kill, States, Ended, TypeOK
  <2> QED  BY <1>6, <1>15, <2>1 DEF Register, Kill, client
<1>16. ASSUME NEW i \in Ids, NEW whole \in BOOLEAN, NEW st \in {"running", "completed"},
              jobs[i].st \in {"pending", "running"}, SetSt(i, st),
              Write(jobs[i].test, jobs[i].step, Output(i, whole)),
              st = "completed" => whole,
              UNCHANGED <<client, earlier, dirty, lost>>
       PROVE  DirInv(u)'
  <2>1. /\ jobs'[i].st = st /\ \A j \in Ids : j # i => jobs'[j] = jobs[j]
        /\ jobs[i].test \in Tests /\ jobs[i].step \in Steps
        /\ i \notin lost => jobid[jobs[i].test][jobs[i].step] = i
    BY <1>16, SetStEffect DEF TypeOK, States, Ended, IdInv, Jobs
  <2>2. UNCHANGED <<pc, cleaned, jobid, local, earlier, dirty>>
    BY <1>16 DEF client
  <2>3. CASE u # jobs[i].test
    <3>1. UNCHANGED remote[u]
      BY <1>16, <2>1, <2>3 DEF Write, TypeOK
    <3> QED  BY <1>1, <1>2, <1>3, <2>1, <2>2, <2>3, <3>1, DirKept
  <2>4. CASE u = jobs[i].test
    <3>1. /\ remote'[u][jobs[i].step] = Output(i, whole)
          /\ \A s \in Steps : s # jobs[i].step => remote'[u][s] = remote[u][s]
      BY <1>16, <2>1, <2>4 DEF Write, TypeOK
    <3>2. CASE i \in lost
      <4>1. u \in LostTests'
        BY <1>2, <2>4, <3>2 DEF LostTests
      <4> QED  BY <1>1, <2>2, <4>1 DEF DirInv, Undisturbed
    <3>3. ASSUME i \notin lost, u \in cleaned, Undisturbed(u)', NEW s \in Steps
          PROVE (/\ Own(u, s, remote[u][s]) /\ WholeIfCompleted(u, s, remote[u][s])
                 /\ Own(u, s, local[u][s])
                 /\ local[u][s] # NoFile =>
                     JobEnded(jobid[u][s]) /\ WholeIfCompleted(u, s, local[u][s])
                 /\ pc[u] = "done" => WholeIfCompleted(u, s, local[u][s]))'
      <4>1. /\ Own(u, s, remote[u][s]) /\ WholeIfCompleted(u, s, remote[u][s])
            /\ Own(u, s, local[u][s])
            /\ local[u][s] # NoFile =>
                JobEnded(jobid[u][s]) /\ WholeIfCompleted(u, s, local[u][s])
            /\ pc[u] = "done" => WholeIfCompleted(u, s, local[u][s])
        BY <1>1, <1>4, <2>2, <3>3 DEF DirInv
      <4>2. CASE s = jobs[i].step
        <5>1. jobid[u][s] = i /\ i # 0 /\ ~JobEnded(i)
          BY <1>16, <2>1, <2>4, <3>3, <4>2, IdsAreNumbers DEF JobEnded, Ended
        <5>2. local[u][s] = NoFile
          BY <4>1, <5>1
        <5>3. pc[u] # "done"
          BY <5>1 DEF EndInv
        <5>4. jobid'[u][s] = i /\ local'[u][s] = NoFile /\ pc'[u] # "done"
          BY <2>2, <5>1, <5>2, <5>3
        <5>5. Own(u, s, remote[u][s])' /\ WholeIfCompleted(u, s, remote[u][s])'
          <6>1. remote'[u][s] = Output(i, whole) /\ Output(i, whole).by = i
            BY <3>1, <4>2 DEF Output
          <6>2. Own(u, s, remote[u][s])'
            BY <5>1, <5>4, <6>1 DEF Own
          <6>3. jobs'[i].st = "completed" => whole = TRUE
            BY <1>16, <2>1
          <6>4. WholeIfCompleted(u, s, remote[u][s])'
            BY <5>4, <6>1, <6>3 DEF WholeIfCompleted
          <6> QED  BY <6>2, <6>4
        <5> QED  BY <5>4, <5>5 DEF Own
      <4>3. CASE s # jobs[i].step
        <5>1. jobid[u][s] # 0 => jobid[u][s] \in Ids /\ jobid[u][s] # i
          BY <2>1, <2>4, <4>3 DEF IdInv, TypeOK
        <5> QED  BY <2>1, <2>2, <3>1, <4>1, <4>3, <5>1 DEF Own, WholeIfCompleted, JobEnded
      <4> QED  BY <4>2, <4>3
    <3>4. u \in cleaned /\ Undisturbed(u)' => u \notin earlier'
      BY <1>1, <1>4, <2>2 DEF DirInv
    <3> QED  BY <1>1, <2>2, <3>2, <3>3, <3>4 DEF DirInv
  <2> QED  BY <2>3, <2>4
<1>17. ASSUME NEW i \in Ids, Start(i) \/ End(i)  PROVE DirInv(u)'
  BY <1>16, <1>17 DEF Start, End
<1>18. ASSUME NEW t \in Tests, EarlierEnds(t)  PROVE DirInv(u)'
  <2>1. /\ UNCHANGED <<pc, cleaned, jobid, local, jobs, dirty, lost>> /\ earlier' \subseteq earlier
        /\ t \in earlier /\ \E s \in Steps : Write(t, s, OldFile)
    BY <1>18 DEF EarlierEnds, client
  <2>2. CASE u # t
    <3>1. UNCHANGED remote[u]
      BY <2>1, <2>2 DEF Write, TypeOK
    <3> QED  BY <1>1, <1>2, <1>3, <2>1, <3>1, DirKept
  <2>3. CASE u = t
    <3>1. ~(t \in cleaned /\ Undisturbed(t)')
      BY <1>1, <1>4, <2>1, <2>3 DEF DirInv
    <3> QED  BY <1>1, <2>1, <2>3, <3>1 DEF DirInv
  <2> QED  BY <2>2, <2>3
<1>19. CASE UNCHANGED vars
  BY <1>6, <1>19 DEF vars, client, system
<1> QED  BY <1>7, <1>8, <1>9, <1>10, <1>11, <1>12, <1>13, <1>14, <1>15, <1>17, <1>18, <1>19
         DEF Next, Submit, Wait, Run, Terminated

-----------------------------------------------------------------------------
(* The theorems. *)

LEMMA InitInv == Init => IInv
<1> SUFFICES ASSUME Init  PROVE IInv
  OBVIOUS
<1>1. TypeOK
  BY InitType
<1>2. PollInv
  BY DEF Init, PollInv
<1>3. \A i \in Ids : jobs[i].st = "none"
  BY DEF Init, NoJob
<1>4. pc = [t \in Tests |-> "ready"] /\ lost = {}
      /\ \A t \in Tests, s \in Steps : jobid[t][s] = 0 /\ local[t][s] = NoFile
  BY DEF Init, EmptyDir
<1>5. IdInv
  BY <1>1, <1>3, <1>4 DEF IdInv, CurrentId, TypeOK
<1>6. EndInv
  BY <1>4 DEF Init, EndInv, Before
<1>7. NoCancelledResult
  BY DEF Init, NoCancelledResult
<1>8. FileInv
  BY <1>4 DEF Init, FileInv
<1> QED  BY <1>1, <1>2, <1>5, <1>6, <1>7, <1>8 DEF IInv

\* The invariant holds in every state (submit, poll and wait).
THEOREM Inductive == Spec => []IInv
<1>1. IInv /\ [Next]_vars => IInv'
  BY TypeStep, PollStep, IdStep, EndStep, CancelStep, FileStep DEF IInv
<1> QED  BY InitInv, <1>1, PTL DEF Spec

\* A job that poll() has cancelled never gives its test a result.
THEOREM NoCancelledResultSafe == Spec => []NoCancelledResult
<1>1. IInv => NoCancelledResult
  BY DEF IInv
<1> QED  BY Inductive, <1>1, PTL

\* The only job that may still write in a test's directory is the one the test
\* waits for: the run is never submitted before the compilation has ended.
THEOREM OnlyCurrentJobSafe == Spec => []OnlyCurrentJob
<1>1. ASSUME IInv  PROVE OnlyCurrentJob
  <2> SUFFICES ASSUME NEW i \in Ids, jobs[i].st \notin Ended \cup {"none"},
                      jobs[i].test \notin LostTests
               PROVE  CurrentId(jobs[i].test) = i
    BY DEF OnlyCurrentJob
  <2> DEFINE t == jobs[i].test
             s == jobs[i].step
  <2>1. i \notin lost /\ t \in Tests /\ s \in Steps
    BY <1>1 DEF LostTests, IInv, IdInv, TypeOK, Jobs
  <2>2. jobid[t][s] = i /\ i # 0
    BY <1>1, <2>1, IdsAreNumbers DEF IInv, IdInv
  <2>3. ~(s < step[t])
    BY <1>1, <2>1, <2>2 DEF IInv, EndInv, JobEnded
  <2>4. ~(s > step[t])
    BY <1>1, <2>1, <2>2 DEF IInv, IdInv
  <2>5. s = step[t]
    BY <1>1, <2>1, <2>3, <2>4 DEF IInv, TypeOK, Steps
  <2> QED  BY <2>2, <2>5 DEF CurrentId
<1> QED  BY Inductive, <1>1, PTL

\* A test that started in a clean directory, and whose submissions were all
\* answered, is judged by what its own jobs wrote, all of it when they completed.
THEOREM ResultIsOwnSafe == Spec => []ResultIsOwn
<1>1. ASSUME IInv  PROVE ResultIsOwn
  <2> SUFFICES ASSUME NEW t \in Tests, pc[t] = "done", Undisturbed(t), NEW s \in Steps,
                      jobid[t][s] # 0
               PROVE  /\ jobs[jobid[t][s]].st \in Ended
                      /\ local[t][s] \in {NoFile, Output(jobid[t][s], FALSE),
                                                  Output(jobid[t][s], TRUE)}
                      /\ jobs[jobid[t][s]].st = "completed" =>
                            local[t][s] = Output(jobid[t][s], TRUE)
    BY DEF ResultIsOwn
  <2>1. jobs[jobid[t][s]].st \in Ended
    BY <1>1 DEF IInv, EndInv, JobEnded
  <2>2. t \in cleaned
    BY <1>1 DEF IInv, FileInv
  <2>3. Own(t, s, local[t][s]) /\ WholeIfCompleted(t, s, local[t][s])
    BY <1>1, <2>2 DEF IInv, FileInv
  <2>4. local[t][s] \in Files
    BY <1>1 DEF IInv, TypeOK
  <2>5. local[t][s] # NoFile => local[t][s].by = jobid[t][s]
    BY <2>3 DEF Own
  <2>6. local[t][s] = [by |-> local[t][s].by, whole |-> local[t][s].whole]
        /\ local[t][s].whole \in BOOLEAN
    BY <2>4 DEF Files
  <2>7. local[t][s] \in {NoFile, Output(jobid[t][s], FALSE), Output(jobid[t][s], TRUE)}
    BY <2>5, <2>6 DEF Output
  <2> QED  BY <2>1, <2>3, <2>7 DEF WholeIfCompleted
<1> QED  BY Inductive, <1>1, PTL
=============================================================================
