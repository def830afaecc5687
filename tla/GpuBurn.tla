-------------------------------- MODULE GpuBurn --------------------------------
(***************************************************************************)
(* The GPU burn benchmark: launch starts one thread per device             *)
(* (startBurn), which warms up, signals that it is ready and holds off on  *)
(* the condition variable cv until burn is set; it then repeats compute    *)
(* and compare until burn is reset.  launch reads one BurnTracker per      *)
(* device for the verdict, and joins the threads.                          *)
(*                                                                         *)
(* cv.wait(lk, p) is "while (!p()) wait(lk)": the test and the call of     *)
(* wait are two steps under cv_m, wait releases cv_m as it blocks, and may *)
(* return without a notification.  burn is written without cv_m.           *)
(* What is done under one lock, and touches only what it protects, is one  *)
(* step.                                                                   *)
(***************************************************************************)
EXTENDS Naturals, FiniteSets

CONSTANT NumDevices   \* devices.size()

ASSUME DevicesAssumption == NumDevices \in Nat

Devices == 1..NumDevices

VARIABLES
    stage,          \* device -> where its thread is
    main,           \* where launch is
    cvm,            \* cv_m: "free", or its owner, when held across steps
    waiters,        \* the threads blocked on cv
    startUpCounter,
    burn,
    found,          \* device -> totalErrors is not zero (its last compare)
    reps,           \* device -> the tracker has counted a repetition
    err,            \* device -> the tracker has counted an error
    next,           \* the device whose tracker is read next
    verdict,        \* device -> what launch printed for it
    logged          \* history: device -> outcomes logged before its verdict

threads  == <<stage, found>>
trackers == <<reps, err, logged>>
burnVars == <<stage, main, cvm, waiters, startUpCounter, burn, found, reps, err, next,
              verdict, logged>>

Launch == 0    \* launch's own name among the threads

BurnInit ==
    /\ stage = [d \in Devices |-> "warmup"]
    /\ main = "start"
    /\ cvm = "free"
    /\ waiters = {}
    /\ startUpCounter = 0
    /\ burn = FALSE
    /\ found = [d \in Devices |-> FALSE]
    /\ reps = [d \in Devices |-> FALSE]
    /\ err = [d \in Devices |-> FALSE]
    /\ next = 1
    /\ verdict = [d \in Devices |-> "none"]
    /\ logged = [d \in Devices |-> {}]

-----------------------------------------------------------------------------
(* startBurn. *)

\* Mutated SignalReady: it wakes up nobody.
SignalQuietly(d) ==
    /\ stage[d] = "warmup" /\ cvm = "free"
    /\ startUpCounter' = startUpCounter + 1
    /\ stage' = [stage EXCEPT ![d] = "hold"]
    /\ UNCHANGED <<main, cvm, waiters, burn, found, trackers, next, verdict>>

\* End of the warm-up, whose errors are dropped: count, notify_all.
SignalReady(d) ==
    /\ stage[d] = "warmup" /\ cvm = "free"
    /\ startUpCounter' = startUpCounter + 1
    /\ waiters' = {}
    /\ stage' = [stage EXCEPT ![d] = "hold"]
    /\ UNCHANGED <<main, cvm, burn, found, trackers, next, verdict>>

\* The predicate of cv.wait, evaluated with cv_m held: on the first call, or
\* once awake.
HoldOff(d) ==
    /\ stage[d] = "hold" /\ d \notin waiters /\ cvm = "free"
    /\ IF burn THEN stage' = [stage EXCEPT ![d] = "loop"] /\ UNCHANGED cvm
               ELSE stage' = [stage EXCEPT ![d] = "blocking"] /\ cvm' = "worker"
    /\ UNCHANGED <<main, waiters, startUpCounter, burn, found, trackers, next, verdict>>

\* cv.wait blocks and releases cv_m.
Block(d) ==
    /\ stage[d] = "blocking"
    /\ waiters' = waiters \cup {d}
    /\ stage' = [stage EXCEPT ![d] = "hold"]
    /\ cvm' = "free"
    /\ UNCHANGED <<main, startUpCounter, burn, found, trackers, next, verdict>>

\* "while (burn)".
Repeat(d) ==
    /\ stage[d] = "loop"
    /\ stage' = [stage EXCEPT ![d] = IF burn THEN "compute" ELSE "exited"]
    /\ UNCHANGED <<main, cvm, waiters, startUpCounter, burn, found, trackers, next, verdict>>

\* compute and compare: the GPU may have computed wrong elements.
Compute(d) ==
    /\ stage[d] = "compute"
    /\ \E faulty \in BOOLEAN : found' = [found EXCEPT ![d] = faulty]
    /\ stage' = [stage EXCEPT ![d] = "log"]
    /\ UNCHANGED <<main, cvm, waiters, startUpCounter, burn, trackers, next, verdict>>

Logged(d) == IF verdict[d] = "none" THEN logged[d] \cup {found[d]} ELSE logged[d]

\* Mutated Log: the errors of the last repetition only.
LogLast(d) ==
    /\ stage[d] = "log"
    /\ reps' = [reps EXCEPT ![d] = TRUE]
    /\ err' = [err EXCEPT ![d] = found[d]]
    /\ logged' = [logged EXCEPT ![d] = Logged(d)]
    /\ found' = [found EXCEPT ![d] = FALSE]
    /\ stage' = [stage EXCEPT ![d] = "loop"]
    /\ UNCHANGED <<main, cvm, waiters, startUpCounter, burn, next, verdict>>

\* BurnTracker::log(getErrors()).
Log(d) ==
    /\ stage[d] = "log"
    /\ reps' = [reps EXCEPT ![d] = TRUE]
    /\ err' = [err EXCEPT ![d] = err[d] \/ found[d]]
    /\ logged' = [logged EXCEPT ![d] = Logged(d)]
    /\ found' = [found EXCEPT ![d] = FALSE]
    /\ stage' = [stage EXCEPT ![d] = "loop"]
    /\ UNCHANGED <<main, cvm, waiters, startUpCounter, burn, next, verdict>>

-----------------------------------------------------------------------------
(* launch. *)

\* Mutated AllReady: one thread is enough.
SomeReady == startUpCounter >= 1

AllReady == startUpCounter = NumDevices

\* The predicate of launch's cv.wait.
AwaitReady ==
    /\ main = "start" /\ Launch \notin waiters /\ cvm = "free"
    /\ IF AllReady THEN main' = "set" /\ UNCHANGED cvm
                   ELSE main' = "blocking" /\ cvm' = "launch"
    /\ UNCHANGED <<threads, waiters, startUpCounter, burn, trackers, next, verdict>>

BlockLaunch ==
    /\ main = "blocking"
    /\ waiters' = waiters \cup {Launch}
    /\ main' = "start"
    /\ cvm' = "free"
    /\ UNCHANGED <<threads, startUpCounter, burn, trackers, next, verdict>>

\* "burn = true", then notify_all, neither of them under cv_m.
SetBurn ==
    /\ main = "set"
    /\ burn' = TRUE
    /\ main' = "notify"
    /\ UNCHANGED <<threads, cvm, waiters, startUpCounter, trackers, next, verdict>>

NotifyAll ==
    /\ main = "notify"
    /\ waiters' = {}
    /\ main' = "sleep"
    /\ UNCHANGED <<threads, cvm, startUpCounter, burn, trackers, next, verdict>>

\* Mutated ResetBurn: the switch is left on.
ResetBurnNot ==
    /\ main = "sleep"
    /\ main' = "read"
    /\ UNCHANGED <<threads, cvm, waiters, startUpCounter, burn, trackers, next, verdict>>

\* sleep_for is over: "burn = false".
ResetBurn ==
    /\ main = "sleep"
    /\ burn' = FALSE
    /\ main' = "read"
    /\ UNCHANGED <<threads, cvm, waiters, startUpCounter, trackers, next, verdict>>

\* The failure checking of BurnTracker::read.
Valid(d) == reps[d] /\ ~err[d]

\* BurnTracker::read, of each device in turn: it resets the counters it turns
\* into a result.  The result is negative, and the device "FAULTY", when
\* compare took longer during the warm-up than a whole repetition takes now.
ReadTracker ==
    /\ main = "read" /\ next \in Devices
    /\ \E negative \in BOOLEAN :
            verdict' = [verdict EXCEPT ![next] =
                            IF Valid(next) /\ ~negative THEN "OK" ELSE "FAULTY"]
    /\ reps' = [reps EXCEPT ![next] = reps[next] /\ ~Valid(next)]
    /\ err' = [err EXCEPT ![next] = err[next] /\ ~Valid(next)]
    /\ next' = next + 1
    /\ UNCHANGED <<threads, main, cvm, waiters, startUpCounter, burn, logged>>

StartJoin ==
    /\ main = "read" /\ next > NumDevices
    /\ main' = "join"
    /\ UNCHANGED <<threads, cvm, waiters, startUpCounter, burn, trackers, next, verdict>>

Join ==
    /\ main = "join" /\ \A d \in Devices : stage[d] = "exited"
    /\ main' = "end"
    /\ UNCHANGED <<threads, cvm, waiters, startUpCounter, burn, trackers, next, verdict>>

-----------------------------------------------------------------------------
\* cv.wait may return without a notification.
SpuriousWakeup ==
    /\ \E w \in waiters : waiters' = waiters \ {w}
    /\ UNCHANGED <<threads, main, cvm, startUpCounter, burn, trackers, next, verdict>>

Terminated == main = "end" /\ UNCHANGED burnVars

Worker(d) ==
    \/ SignalReady(d) \/ HoldOff(d) \/ Block(d) \/ Repeat(d) \/ Compute(d) \/ Log(d)

Main ==
    \/ AwaitReady \/ BlockLaunch \/ SetBurn \/ NotifyAll \/ ResetBurn \/ ReadTracker
    \/ StartJoin \/ Join

BurnNext == (\E d \in Devices : Worker(d)) \/ Main \/ SpuriousWakeup \/ Terminated

(* Every thread runs, and gets cv_m if it keeps asking for it.  No thread   *)
(* is promised a spurious wakeup.                                           *)
Fairness ==
    /\ \A d \in Devices : /\ SF_burnVars(SignalReady(d)) /\ SF_burnVars(HoldOff(d))
                          /\ WF_burnVars(Block(d) \/ Repeat(d) \/ Compute(d) \/ Log(d))
    /\ SF_burnVars(AwaitReady)
    /\ WF_burnVars(Main)

BurnSpec == BurnInit /\ [][BurnNext]_burnVars

FairSpec == BurnSpec /\ Fairness

(* The sleep lasts seconds: when it ends, every thread that holds off has   *)
(* had the time to test burn, or has blocked on cv and is not awake.        *)
HadTheirTurn == \A d \in Devices : stage[d] \in {"hold", "blocking"} => d \in waiters

SleepIsLong == ResetBurn => HadTheirTurn

LongSpec == BurnInit /\ [][BurnNext /\ SleepIsLong]_burnVars /\ Fairness

-----------------------------------------------------------------------------
(* Properties. *)

\* The values each variable ranges over, for launch and its threads.
BurnTypeOK ==
    /\ stage \in [Devices -> {"warmup", "hold", "blocking", "loop", "compute", "log", "exited"}]
    /\ main \in {"start", "blocking", "set", "notify", "sleep", "read", "join", "end"}
    /\ cvm \in {"free", "worker", "launch"}
    /\ waiters \subseteq Devices \cup {Launch}
    /\ startUpCounter \in Nat
    /\ burn \in BOOLEAN
    /\ found \in [Devices -> BOOLEAN]
    /\ reps \in [Devices -> BOOLEAN]
    /\ err \in [Devices -> BOOLEAN]
    /\ next \in 1..(NumDevices + 1)
    /\ verdict \in [Devices -> {"none", "OK", "FAULTY"}]
    /\ logged \in [Devices -> SUBSET BOOLEAN]

Burning(d) == stage[d] \in {"loop", "compute", "log", "exited"}

Ready == {d \in Devices : stage[d] # "warmup"}

\* "Hold off any computation until all threads are go": no thread starts its
\* timed work while another is still warming up, spurious wakeups or not.
HoldOffUntilAllGo == (\E d \in Devices : Burning(d)) => Ready = Devices

\* "OK" is printed for a device only when at least one repetition was logged
\* before its tracker was read, and none of those found a wrong element,
\* however the logging thread and the reading one interleave.
VerdictHonest ==
    \A d \in Devices : verdict[d] = "OK" => logged[d] = {FALSE}

\* launch prints its results whatever becomes of the threads: it never waits
\* for a notification that was sent before it blocked.
ResultsPrinted == <>(main \in {"join", "end"})

\* A thread that has started to burn is stopped by the switch.
BurnersStop == \A d \in Devices : stage[d] = "loop" ~> stage[d] = "exited"

-----------------------------------------------------------------------------
(* The inductive invariant behind the first two. *)

\* startUpCounter counts the threads past their warm-up.
CounterInv == startUpCounter = Cardinality(Ready)

\* burn is set, and the threads burn, only once launch has seen them all.
SwitchInv ==
    /\ main \notin {"start", "blocking"} => Ready = Devices
    /\ burn => main \notin {"start", "blocking"}
    /\ \A d \in Devices : Burning(d) => main \notin {"start", "blocking"}

\* The tracker of a device that was not read yet sums up what was logged.
TrackerInv ==
    \A d \in Devices :
        /\ verdict[d] = "none" => /\ reps[d] <=> logged[d] # {}
                                  /\ err[d] <=> TRUE \in logged[d]
        /\ verdict[d] = "OK" => logged[d] = {FALSE}
        /\ (main # "end" /\ d >= next) => verdict[d] = "none"

BurnInv == BurnTypeOK /\ CounterInv /\ SwitchInv /\ TrackerInv

-----------------------------------------------------------------------------
(* What the comments say, and the code does not do. *)

\* "burn is a switch that holds and breaks the work done by the slave
\* threads": once it is off again, launch joins them all.  Not so when a
\* thread tests burn, burn is set and notified, and only then the thread
\* blocks: it misses the notification, and sleeps on with burn off.
AllJoined == <>(main = "end")
================================================================================
