----------------------------- MODULE BuildConfig -----------------------------
(***************************************************************************)
(* generate.py: SystemConfig.build_config calls the detectors one after    *)
(* the other, asks the user between them, and the configuration file is    *)
(* written once they are all done.  What a detector finds on the machine   *)
(* is a choice of the action that runs it.                                 *)
(*                                                                         *)
(* The remote partitions are detected by create_partitions, of which only  *)
(* the promise PartitionDetection is used here; RemoteDetect implements    *)
(* that promise.                                                           *)
(***************************************************************************)
EXTENDS Naturals, Sequences, FiniteSets, SequencesExt

CONSTANTS
    Types,          \* the node types of the cluster
    ModuleNames,    \* what the user may type for a module
    Avail,          \* module name -> the modules whose names contain it
    ModuleLists,    \* the lists of modules the user may ask for
    Schedulers,     \* the schedulers that may be installed
    Requests,       \* the values of --reservations (<<>>: not given)
    ReservLists,    \* the reservations scontrol may list
    MaxReservs      \* bound on the reservations an interactive user asks for

\* The keys of modules_impl and the names of Scheduler._scheduler_dic.
ModulesImpl == <<"tmod31", "tmod32", "tmod4", "lmod">>
SchedulerDic == <<"flux", "lsf", "oar", "pbs", "sge", "squeue", "slurm">>

ASSUME BuildAssumption ==
    /\ IsFiniteSet(Types)
    /\ Schedulers \subseteq ToSet(SchedulerDic)
    /\ Avail \in [ModuleNames -> SUBSET ModuleNames]
    \* A module is found under its own name.
    /\ \A m \in ModuleNames : \A o \in Avail[m] : o \in Avail[o]
    /\ ModuleLists \subseteq Seq(ModuleNames)
    /\ \A r \in Requests \cup ReservLists : r \in Seq({r[i] : i \in DOMAIN r})
    /\ MaxReservs \in Nat

VARIABLES
    userInput,   \* no --auto
    requested,   \* the reservations of --reservations
    pc,          \* the detector to run next
    class,       \* the entry of modules_impl that is being validated
    modsys,      \* _modules_system
    modules,     \* modules_to_load, and which request each is for (history)
    mi,          \* m_i, the module to look up next (from 1)
    ok,          \* modules_ok
    remove,      \* index_remove
    wanted,      \* what the user last typed or chose for each request (history)
    declined,    \* the requests the user gave up (history)
    sched,       \* _remote_scheduler
    listed,      \* scontrol has listed the node types
    result,      \* node type -> what create_partitions made of it
    phase,       \* where create_partitions is
    partitions,  \* the partitions created, in order
    reservs,     \* reservations, as listed by scontrol
    todo         \* the requested reservations still to be looked for

asked == <<modules, mi, ok, remove, wanted, declined>>
remote == <<listed, result, phase, partitions, reservs, todo>>
vars == <<userInput, requested, pc, class, modsys, asked, sched, remote>>

Detection == INSTANCE PartitionDetection WITH MaySkip <- TRUE, MayFail <- TRUE

\* What a list has at some of its positions, in order.
At(list, positions) ==
    LET taken[n \in 0..Len(list)] ==
            IF n = 0 THEN <<>>
            ELSE IF n \in positions THEN Append(taken[n - 1], list[n])
            ELSE taken[n - 1]
    IN  taken[Len(list)]

Positions(list, values) == {i \in DOMAIN list : list[i] \in values}

-----------------------------------------------------------------------------
Stopped == pc \in {"written", "raised"}

Raise == pc' = "raised"

\* partition_1, partition_2...
PartitionName(n) == <<"partition", n>>
NameOf(s) == <<s, 0>>

Partition(kind, of, name) == [kind |-> kind, of |-> of, name |-> name]

AppendPartition(p) == partitions' = Append(partitions, p)

Init ==
    /\ userInput \in BOOLEAN
    /\ requested \in Requests
    /\ pc = "hostname"
    /\ class = 1
    /\ modsys = "nomod"
    /\ modules = <<>> /\ mi = 1 /\ ok = 0 /\ remove = {}
    /\ wanted = <<>> /\ declined = {}
    /\ sched = "none"
    /\ listed = FALSE
    /\ Detection!PromiseInit
    /\ partitions = <<>>
    /\ reservs = <<>> /\ todo = <<>>

-----------------------------------------------------------------------------
(* find_systemname, find_hostname, find_modules_system *)

\* A hostname that starts with another character than a letter has no match.
FindHostname ==
    /\ pc = "hostname"
    /\ pc' \in {"modules", "raised"}
    /\ UNCHANGED <<userInput, requested, class, modsys, asked, sched, remote>>

\* Only tmod31 lets exceptions out: MODULESHOME is not set, or its command fails.
Validations(c) == {"sane", "missing"} \cup (IF c = "tmod31" THEN {"raises"} ELSE {})

AfterModules == IF userInput THEN "request" ELSE "scheduler"

\* The last class is returned, and asked for modules, when none is sane.
Validate ==
    /\ pc = "modules"
    /\ \E v \in Validations(ModulesImpl[class]) :
          \/ /\ v = "raises" /\ Raise
             /\ UNCHANGED <<class, modsys>>
          \/ /\ v = "sane"
             /\ modsys' = ModulesImpl[class]
             /\ pc' = AfterModules
             /\ UNCHANGED class
          \/ /\ v = "missing" /\ class < Len(ModulesImpl)
             /\ class' = class + 1
             /\ UNCHANGED <<pc, modsys>>
          \/ /\ v = "missing" /\ class = Len(ModulesImpl)
             /\ pc' = AfterModules
             /\ UNCHANGED <<class, modsys>>
    /\ UNCHANGED <<userInput, requested, asked, sched, remote>>

-----------------------------------------------------------------------------
(* request_modules *)

\* What is to be loaded for the request at a place of the list.
Module(name, q) == [name |-> name, of |-> q]

\* The user is asked for a comma-separated list, or says n.
Request ==
    /\ pc = "request"
    /\ \/ /\ pc' = "resources"
          /\ UNCHANGED <<modules, wanted>>
       \/ \E list \in ModuleLists :
             /\ modules' = [q \in DOMAIN list |-> Module(list[q], q)]
             /\ wanted' = list
             /\ pc' = "lookup"
    /\ UNCHANGED <<userInput, requested, class, modsys, mi, ok, remove, declined,
                   sched, remote>>

\* The command of the modules system may fail, or not be known: check=True.
LookupFails ==
    /\ pc = "lookup" /\ mi <= Len(modules)
    /\ Raise
    /\ UNCHANGED <<userInput, requested, class, modsys, asked, sched, remote>>

Options == Avail[modules[mi].name]

Replace(m) ==
    /\ modules' = [modules EXCEPT ![mi].name = m]
    /\ wanted' = [wanted EXCEPT ![modules[mi].of] = m]

Decline ==
    /\ remove' = remove \cup {mi}
    /\ declined' = declined \cup {modules[mi].of}
    /\ UNCHANGED <<modules, wanted, ok>>

\* No module of that name: another name, looked up in the next round, or n.
LookupNone ==
    /\ Options = {}
    /\ \/ Decline
       \/ /\ \E m \in ModuleNames : Replace(m)
          /\ UNCHANGED <<ok, remove, declined>>

\* Several modules contain the name: one of them, or n.
LookupMany ==
    /\ Cardinality(Options) > 1
    /\ \/ Decline
       \/ /\ \E m \in Options : Replace(m)
          /\ ok' = ok + 1
          /\ UNCHANGED <<remove, declined>>

LookupOne ==
    /\ Cardinality(Options) = 1
    /\ ok' = ok + 1
    /\ UNCHANGED <<modules, remove, wanted, declined>>

\* The command of tmod31 is one word with a blank in it, and always fails.
Lookup ==
    /\ pc = "lookup" /\ mi <= Len(modules)
    /\ modsys # "tmod31"
    /\ LookupNone \/ LookupMany \/ LookupOne
    /\ mi' = mi + 1
    /\ UNCHANGED <<userInput, requested, pc, class, modsys, sched, remote>>

\* Mutated Without: popped in ascending order, each pop shifts the next ones.
WithoutAscending(list, rm) ==
    At(list, {i \in 1..Len(list) :
                 \A r \in rm : i # r + Cardinality({q \in rm : q < r})})

\* Popped from the last one to the first one.
Without(list, rm) == At(list, {i \in 1..Len(list) : i \notin rm})

AllResolved == Len(modules) = ok \/ Len(modules) - Cardinality(remove) = ok

NewRound == mi' = 1 /\ remove' = {} /\ ok' = 0

EndRound ==
    /\ pc = "lookup" /\ mi > Len(modules)
    /\ modules' = Without(modules, remove)
    /\ IF AllResolved
       THEN /\ pc' = "resources"
            /\ UNCHANGED <<mi, ok, remove>>
       ELSE NewRound /\ UNCHANGED pc
    /\ UNCHANGED <<userInput, requested, class, modsys, wanted, declined,
                   sched, remote>>

-----------------------------------------------------------------------------
(* _get_resourcesdir, find_scheduler, find_launcher *)

\* The loop's condition is false for any answer: a directory that does not
\* exist is taken as it is, and copied to the file.
GetResourcesdir ==
    /\ pc = "resources"
    /\ pc' = "scheduler"
    /\ UNCHANGED <<userInput, requested, class, modsys, asked, sched, remote>>

\* The user picks one of several; --auto takes the last of the dictionary.
Picks(dic, found) ==
    IF found = {} THEN {}
    ELSE IF userInput THEN found
    ELSE {Last(At(dic, Positions(dic, found)))}

\* Nothing found: detect_scheduler assigns another attribute than the name.
FindScheduler ==
    /\ pc = "scheduler"
    /\ \E found \in SUBSET Schedulers :
          IF found = {} THEN UNCHANGED sched ELSE sched' \in Picks(SchedulerDic, found)
    /\ pc' = "launcher"
    /\ UNCHANGED <<userInput, requested, class, modsys, asked, remote>>

HasSlurm == sched \in {"slurm", "squeue"}

\* The launcher is copied to the partitions and decides nothing.
FindLauncher ==
    /\ pc = "launcher"
    /\ pc' = IF HasSlurm THEN "nodes" ELSE "render"
    /\ UNCHANGED <<userInput, requested, class, modsys, asked, sched, remote>>

-----------------------------------------------------------------------------
(* The partitions *)

\* A failing scontrol leaves no node types; a missing default partition raises.
SearchNodeTypes ==
    /\ pc = "nodes"
    /\ \/ listed' \in BOOLEAN /\ pc' = "login"
       \/ Raise /\ UNCHANGED listed
    /\ UNCHANGED <<userInput, requested, class, modsys, asked, sched,
                   result, phase, partitions, reservs, todo>>

CreateLogin ==
    /\ pc = "login"
    /\ \/ AppendPartition(Partition("login", {}, NameOf("login")))
       \/ userInput /\ UNCHANGED partitions
    /\ pc' = "detect"
    /\ UNCHANGED <<userInput, requested, class, modsys, asked, sched,
                   listed, result, phase, reservs, todo>>

\* _p_n is counted when the coroutines start, in any order but each once.
FreeNumber(n) == \A i \in DOMAIN partitions : partitions[i].name # PartitionName(n)

\* The results that leave a partition behind.
Settled == {"plain", "filled"}

SettleType(t) ==
    /\ pc = "detect" /\ listed
    /\ Detection!Settle(t)
    /\ ~userInput => result'[t] # "skipped"
    /\ IF result'[t] \in Settled
       THEN \E n \in 1..Cardinality(Types) :
               /\ FreeNumber(n)
               /\ AppendPartition(Partition("type", t, PartitionName(n)))
       ELSE UNCHANGED partitions
    /\ UNCHANGED <<userInput, requested, pc, class, modsys, asked, sched,
                   listed, reservs, todo>>

DetectionFails ==
    /\ pc = "detect" /\ listed
    /\ Detection!Fail
    /\ Raise
    /\ UNCHANGED <<userInput, requested, class, modsys, asked, sched,
                   listed, result, partitions, reservs, todo>>

AfterDetection == IF userInput \/ requested # <<>> THEN "search" ELSE "render"

\* Without node types there is nothing to wait for.
DetectionEnds ==
    /\ pc = "detect"
    /\ IF listed THEN Detection!Complete ELSE UNCHANGED <<result, phase>>
    /\ pc' = AfterDetection
    /\ UNCHANGED <<userInput, requested, class, modsys, asked, sched,
                   listed, partitions, reservs, todo>>

\* grep exits with 1 when there is no reservation, and check=True raises.
SearchReservations ==
    /\ pc = "search"
    /\ reservs' \in ReservLists
    /\ pc' = IF reservs' = <<>> THEN "raised" ELSE "reservations"
    /\ todo' = IF userInput THEN <<>> ELSE requested
    /\ UNCHANGED <<userInput, requested, class, modsys, asked, sched,
                   listed, result, phase, partitions>>

\* Mutated TodoLeft: the loop is left at the first unknown reservation.
TodoLeftWhileFound == IF Head(todo) \in ToSet(reservs) THEN Tail(todo) ELSE <<>>

TodoLeft == Tail(todo)

\* "Reservation ... not found, skipping..."
Skip == UNCHANGED <<pc, partitions>>

RequestedReservation ==
    /\ pc = "reservations" /\ ~userInput /\ todo # <<>>
    /\ todo' = TodoLeft
    /\ IF Head(todo) \in ToSet(reservs)
       THEN /\ AppendPartition(Partition("reservation", Head(todo), NameOf(Head(todo))))
            /\ UNCHANGED pc
       ELSE Skip
    /\ UNCHANGED <<userInput, requested, class, modsys, asked, sched,
                   listed, result, phase, reservs>>

Reserved == At(partitions, {i \in DOMAIN partitions : partitions[i].kind = "reservation"})

\* The user may ask for a reservation more than once.
ChosenReservation ==
    /\ pc = "reservations" /\ userInput /\ Len(Reserved) < MaxReservs
    /\ \E r \in ToSet(reservs) : AppendPartition(Partition("reservation", r, NameOf(r)))
    /\ UNCHANGED <<userInput, requested, pc, class, modsys, asked, sched,
                   listed, result, phase, reservs, todo>>

ReservationsDone ==
    /\ pc = "reservations" /\ todo = <<>>
    /\ pc' = "render"
    /\ UNCHANGED <<userInput, requested, class, modsys, asked, sched, remote>>

\* The template is looked for in the working directory of the process.
Render ==
    /\ pc = "render"
    /\ pc' \in {"written", "raised"}
    /\ UNCHANGED <<userInput, requested, class, modsys, asked, sched, remote>>

-----------------------------------------------------------------------------
Modules == FindHostname \/ Validate \/ Request \/ LookupFails \/ Lookup \/ EndRound

Tools == GetResourcesdir \/ FindScheduler \/ FindLauncher

Remote ==
    \/ SearchNodeTypes \/ CreateLogin
    \/ \E t \in Types : SettleType(t)
    \/ DetectionFails \/ DetectionEnds
    \/ SearchReservations \/ RequestedReservation \/ ChosenReservation \/ ReservationsDone

Terminating == Stopped /\ UNCHANGED vars

Next == Modules \/ Tools \/ Remote \/ Render \/ Terminating

Spec == Init /\ [][Next]_vars

-----------------------------------------------------------------------------
AfterRequest == pc \notin {"hostname", "modules", "request", "lookup", "raised"}

(* The list holds what the user last gave for each request that was not    *)
(* given up, in the order of the requests, and the machine has each of     *)
(* these modules: over any number of rounds, the pops never take a         *)
(* neighbour's place, and the count of modules_ok lets no unknown name     *)
(* through (io.py:176-215).                                                *)
NoModuleLost ==
    AfterRequest =>
        /\ {modules[i].of : i \in DOMAIN modules} = DOMAIN wanted \ declined
        /\ \A i, j \in DOMAIN modules : i < j => modules[i].of < modules[j].of
        /\ \A i \in DOMAIN modules : /\ modules[i].name = wanted[modules[i].of]
                                     /\ Avail[modules[i].name] # {}

(* In auto mode the reservation partitions are those requested that exist, *)
(* in the order of --reservations: an unknown one is skipped, and the ones *)
(* after it are still served (config.py:173-186).                          *)
ReservationsServed ==
    pc = "written" /\ ~userInput /\ HasSlurm =>
        [i \in DOMAIN Reserved |-> Reserved[i].of] =
        At(requested, Positions(requested, ToSet(reservs)))
=============================================================================
