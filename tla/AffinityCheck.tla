--------------------------- MODULE AffinityCheck ---------------------------
(***************************************************************************)
(* The affinity tests of checks/prgenv/affinity_check.py.  Each test asks  *)
(* Slurm and the OpenMP runtime for one way of placing tasks and threads   *)
(* on a node, runs a tool that prints one line per thread with the CPUs    *)
(* the thread may run on, and consumes the CPUs of the node line by line:  *)
(* a line that does not fit is a SanityError, and a CPU that is left at    *)
(* the end fails the test.  The placement is the environment's: any line   *)
(* of Reports may come next, so a test is judged on every placement.       *)
(*                                                                         *)
(* The output is revealed one line at a time, as the hook reads it; a line *)
(* that no hook reads cannot matter.                                       *)
(***************************************************************************)
EXTENDS Integers, Sequences, FiniteSets

CONSTANTS
  Topologies, \* descriptions of a node: CPUs, CPUs per core, cores, NUMA nodes, sockets
  Cases,      \* the tests that are run, each with the node it runs on
  Reports,    \* the sets of CPUs a line of the tool may show
  MaxExtra    \* bound on the lines an output has beyond the threads asked for

VARIABLES
  topo,     \* the processor of the partition the test runs on
  test,     \* the class of the test
  pc,       \* the phase of the test
  job,      \* what the test asks for: tasks, CPUs per task, OpenMP threads
  aff_cpus, \* the lines of the tool read so far
  cpu_set,  \* the CPUs not yet consumed
  sockets,  \* per socket, the CPUs the local loops have seen on it
  result    \* how the test ended

vars == <<topo, test, pc, job, aff_cpus, cpu_set, sockets, result>>

IsPartition(P, S) ==
  /\ UNION P = S
  /\ {} \notin P
  /\ \A A, B \in P : A # B => A \cap B = {}

Cpus(t) == 0 .. t.num_cpus - 1
SocketSet(t) == {t.sockets[i] : i \in DOMAIN t.sockets}

\* The cores, the NUMA nodes and the sockets of a node each divide its CPUs,
\* and no core lies on two sockets.
TopologyOK(t) ==
  /\ t.num_cpus \in Nat \ {0}
  /\ t.num_cpus_per_core \in Nat \ {0}
  /\ t.sockets \in Seq(SUBSET Cpus(t))
  /\ \A i, j \in DOMAIN t.sockets : i # j => t.sockets[i] # t.sockets[j]
  /\ IsPartition(t.cores, Cpus(t))
  /\ IsPartition(t.numa_nodes, Cpus(t))
  /\ IsPartition(SocketSet(t), Cpus(t))
  /\ \A c \in t.cores, s \in SocketSet(t) : c \subseteq s \/ c \cap s = {}

ASSUME TopologiesAssumption == \A t \in Topologies : TopologyOK(t)
ASSUME ReportsAssumption ==
  \A r \in Reports : r # {} /\ r \subseteq Nat /\ IsFiniteSet(r)
ASSUME MaxExtraAssumption == MaxExtra \in Nat

NoJob == [num_tasks |-> 0, num_cpus_per_task |-> 0, num_omp_threads |-> 0]

BySocket == {"OneTaskPerSocketOpenMPnomt", "OneTaskPerSocketOpenMP"}
BySet == {"OneThreadPerLogicalCoreOpenMP", "OneThreadPerPhysicalCoreOpenMP",
          "OneThreadPerPhysicalCoreOpenMPnomt", "OneThreadPerSocketOpenMP"}
ByTask == {"ConsecutiveSocketFilling", "AlternateSocketFilling"}
Tests == BySet \cup BySocket \cup ByTask \cup {"OneTaskPerNumaNode"}

ASSUME CasesAssumption == Cases \subseteq Tests \X Topologies

-----------------------------------------------------------------------------
(* Helpers of the test classes.                                            *)

NumSockets(t) == Len(t.sockets)
NumCores(t) == t.num_cpus \div t.num_cpus_per_core

\* parse_cpus sorts a line, so that affinity_set[0] is its smallest CPU.
First(set) == CHOOSE c \in set : \A d \in set : c <= d

\* get_sibling_cpus: the core, the socket or the NUMA node a CPU belongs to.
Siblings(t, cpu, by) ==
  LET groups == CASE by = "core" -> t.cores
                  [] by = "socket" -> SocketSet(t)
                  [] by = "node" -> t.numa_nodes
  IN  CHOOSE g \in groups : cpu \in g

\* get_socket_id
SocketId(t, cpu) == CHOOSE i \in DOMAIN t.sockets : cpu \in t.sockets[i]

Ask(tasks, cpus, threads) ==
  [num_tasks |-> tasks, num_cpus_per_task |-> cpus, num_omp_threads |-> threads]

\* The threads of the tests with one task on the whole node.
NumThreads(t, x) ==
  CASE x = "OneThreadPerLogicalCoreOpenMP" -> t.num_cpus
    [] x = "OneThreadPerSocketOpenMP" -> NumSockets(t)
    [] OTHER -> NumCores(t)

\* The CPUs that task books: all of them, unless multithreading is off.
AskNode(t, x) ==
  Ask(1, IF x = "OneThreadPerPhysicalCoreOpenMPnomt" THEN NumCores(t)
                                                     ELSE t.num_cpus,
      NumThreads(t, x))

ThreadsPerSocket(t, x) ==
  (IF x = "OneTaskPerSocketOpenMP" THEN t.num_cpus ELSE NumCores(t))
    \div NumSockets(t)

AskSockets(t, x) ==
  Ask(NumSockets(t), ThreadsPerSocket(t, x), ThreadsPerSocket(t, x))

AskCores(t) == Ask(NumCores(t), 1, 1)

AskNumaNodes(t) ==
  LET numas == Cardinality(t.numa_nodes)
  IN  Ask(numas, (t.num_cpus \div numas) \div t.num_cpus_per_core, 1)

\* What the hooks before the run ask Slurm and OpenMP for.
Asks(t, x) ==
  CASE x \in BySet -> AskNode(t, x)
    [] x \in BySocket -> AskSockets(t, x)
    [] x \in ByTask -> AskCores(t)
    [] x = "OneTaskPerNumaNode" -> AskNumaNodes(t)

\* How a class of BySet groups the CPUs a thread is bound to.
Group(t, x, cpu) ==
  CASE x = "OneThreadPerLogicalCoreOpenMP" -> {cpu}
    [] x = "OneThreadPerSocketOpenMP" -> Siblings(t, cpu, "socket")
    [] OTHER -> Siblings(t, cpu, "core")

PerSocket == job.num_tasks \div NumSockets(topo)

-----------------------------------------------------------------------------
(* A test: setup, run, one step per line of the output, sanity.            *)

Init ==
  /\ topo \in Topologies
  /\ test \in Tests
  /\ <<test, topo>> \in Cases
  /\ pc = "setup"
  /\ job = NoJob
  /\ aff_cpus = <<>>
  /\ cpu_set = {}
  /\ sockets = [i \in DOMAIN topo.sockets |-> {}]
  /\ result = "none"

\* skip_if_no_procinfo, skip_cpe_2312: a test may be skipped on any system,
\* and the multithreading test is skipped where a core has one CPU.
Skip ==
  /\ pc = "setup"
  /\ pc' = "done"
  /\ result' = "skipped"
  /\ UNCHANGED <<topo, test, job, aff_cpus, cpu_set, sockets>>

\* setup_proc_topo and the hooks before the run.
Setup ==
  /\ pc = "setup"
  /\ ~(test = "OneTaskPerSocketOpenMP" /\ topo.num_cpus_per_core = 1)
  /\ cpu_set' = Cpus(topo)
  /\ job' = Asks(topo, test)
  /\ pc' = "consume"
  /\ UNCHANGED <<topo, test, aff_cpus, sockets, result>>

\* The next line of the output.
Read(set) ==
  /\ pc = "consume"
  /\ Len(aff_cpus) < job.num_tasks * job.num_omp_threads + MaxExtra
  /\ set \subseteq Cpus(topo)
  /\ aff_cpus' = Append(aff_cpus, set)
  /\ UNCHANGED <<topo, test, job>>

Reject ==
  /\ pc' = "done"
  /\ result' = "sanity_error"
  /\ UNCHANGED <<cpu_set, sockets>>

\* Mutant of FitsSet: the CPUs need not be free.
FitsSetTwice(set) ==
  /\ set \subseteq Group(topo, test, First(set))
  /\ test = "OneThreadPerPhysicalCoreOpenMPnomt" => Cardinality(set) = 1

\* The conditions under which a line of a BySet test is accepted:
\* consume_cpu_set of the four classes and assert_aff_set_length.
FitsSet(set) ==
  /\ set \subseteq cpu_set
  /\ set \subseteq Group(topo, test, First(set))
  /\ test = "OneThreadPerPhysicalCoreOpenMPnomt" => Cardinality(set) = 1

ConsumeSet(set) ==
  /\ test \in BySet
  /\ Read(set)
  /\ \/ /\ FitsSet(set)
        /\ cpu_set' = cpu_set \ Group(topo, test, First(set))
        /\ UNCHANGED <<pc, sockets, result>>
     \/ ~FitsSet(set) /\ Reject

\* consume_cpu_set of the tests with a task per socket.
FitsSocket(set) ==
  /\ Cardinality(set) = job.num_omp_threads
  /\ set \subseteq Siblings(topo, First(set), "socket")

ConsumeSocketThread(set) ==
  /\ test \in BySocket
  /\ Read(set)
  /\ \/ FitsSocket(set) /\ UNCHANGED <<pc, cpu_set, sockets, result>>
     \/ ~FitsSocket(set) /\ Reject

ThreadsInSocket(i) ==
  Cardinality({k \in DOMAIN aff_cpus : SocketId(topo, First(aff_cpus[k])) = i})

\* The output ends; the sockets with as many threads as were asked for are
\* removed.
EndSocketThreads ==
  /\ pc = "consume"
  /\ test \in BySocket
  /\ cpu_set' = cpu_set \ UNION {topo.sockets[i] : i \in
         {j \in DOMAIN topo.sockets : ThreadsInSocket(j) = job.num_omp_threads}}
  /\ pc' = "sanity"
  /\ UNCHANGED <<topo, test, job, aff_cpus, sockets, result>>

EndSets ==
  /\ pc = "consume"
  /\ test \in BySet
  /\ pc' = "sanity"
  /\ UNCHANGED <<topo, test, job, aff_cpus, cpu_set, sockets, result>>

\* ConsecutiveSocketFilling: the task's core joins the CPUs of the socket that
\* is being filled; after its last task the socket is checked.
FillingSocket == (Len(aff_cpus) \div PerSocket) + 1

FitsConsecutive(set, s) ==
  /\ Cardinality(set) <= 1
  /\ set \cap sockets[s] = {}

SocketMixed(present) ==
  LET socket == Siblings(topo, First(present), "socket")
  IN  ~(present \subseteq socket) /\ Cardinality(socket) = Cardinality(present)

ConsumeConsecutive(set) ==
  LET s       == FillingSocket
      present == sockets[s] \cup Siblings(topo, First(set), "core")
      full    == Len(aff_cpus) + 1 = s * PerSocket
  IN  /\ test = "ConsecutiveSocketFilling"
      /\ Read(set)
      /\ \/ ~FitsConsecutive(set, s) /\ Reject
         \/ /\ FitsConsecutive(set, s)
            /\ sockets' = [sockets EXCEPT ![s] = present]
            /\ IF full
               THEN \/ /\ SocketMixed(present)
                       /\ pc' = "done"
                       /\ result' = "sanity_error"
                       /\ UNCHANGED cpu_set
                    \/ /\ ~SocketMixed(present)
                       /\ cpu_set' = cpu_set \ present
                       /\ pc' = IF s = NumSockets(topo) THEN "sanity" ELSE pc
                       /\ UNCHANGED result
               ELSE UNCHANGED <<pc, cpu_set, result>>

\* Mutant of AlternateSocket: the two loops swapped.
AlternateSocketInBlocks == (Len(aff_cpus) \div PerSocket) + 1

\* AlternateSocketFilling: task k must be on socket k modulo the sockets.
AlternateSocket == (Len(aff_cpus) % NumSockets(topo)) + 1

FitsAlternate(set, s) ==
  /\ Cardinality(set) <= 1
  /\ set \cap sockets[s] = {}
  /\ set \subseteq topo.sockets[s]

ConsumeAlternate(set) ==
  LET s     == AlternateSocket
      seen  == [sockets EXCEPT ![s] = @ \cup Siblings(topo, First(set), "core")]
      round == (Len(aff_cpus) + 1) \div NumSockets(topo)
      even  == \A i \in DOMAIN seen :
                 Cardinality(seen[i]) = round * topo.num_cpus_per_core
      left  == IF s = NumSockets(topo) /\ ~even THEN cpu_set \cup {-1} ELSE cpu_set
      last  == s = NumSockets(topo) /\ round = PerSocket
  IN  /\ test = "AlternateSocketFilling"
      /\ Read(set)
      /\ \/ ~FitsAlternate(set, s) /\ Reject
         \/ /\ FitsAlternate(set, s)
            /\ sockets' = seen
            /\ cpu_set' = IF last THEN left \ UNION {seen[i] : i \in DOMAIN seen}
                                  ELSE left
            /\ pc' = IF last THEN "sanity" ELSE pc
            /\ UNCHANGED result

\* OneTaskPerNumaNode
FitsNuma(set) ==
  /\ Cardinality(set) = job.num_cpus_per_task
  /\ set \subseteq Siblings(topo, First(set), "node")

ConsumeNuma(set) ==
  /\ test = "OneTaskPerNumaNode"
  /\ Read(set)
  /\ \/ /\ FitsNuma(set)
        /\ cpu_set' = cpu_set \ Siblings(topo, First(set), "node")
        /\ UNCHANGED <<pc, sockets, result>>
     \/ ~FitsNuma(set) /\ Reject

EndNuma ==
  /\ pc = "consume"
  /\ test = "OneTaskPerNumaNode"
  /\ IF Len(aff_cpus) # Cardinality(topo.numa_nodes)
     THEN pc' = "done" /\ result' = "wrong_count"
     ELSE pc' = "sanity" /\ UNCHANGED result
  /\ UNCHANGED <<topo, test, job, aff_cpus, cpu_set, sockets>>

\* The loops over a fixed number of tasks index a list that is too short.
ShortOutput ==
  /\ pc = "consume"
  /\ test \in ByTask
  /\ pc' = "done"
  /\ result' = "index_error"
  /\ UNCHANGED <<topo, test, job, aff_cpus, cpu_set, sockets>>

\* The CPUs left at the end fail the test.
assert_consumed_cpu_set ==
  /\ pc = "sanity"
  /\ pc' = "done"
  /\ result' = IF cpu_set = {} THEN "pass" ELSE "not_consumed"
  /\ UNCHANGED <<topo, test, job, aff_cpus, cpu_set, sockets>>

Done == pc = "done" /\ UNCHANGED vars

Next ==
  \/ Skip \/ Setup \/ EndSets \/ EndSocketThreads \/ EndNuma \/ ShortOutput
  \/ assert_consumed_cpu_set \/ Done
  \/ \E set \in Reports :
       \/ ConsumeSet(set) \/ ConsumeSocketThread(set)
       \/ ConsumeConsecutive(set) \/ ConsumeAlternate(set) \/ ConsumeNuma(set)

Spec == Init /\ [][Next]_vars

-----------------------------------------------------------------------------
(* What the tests promise.                                                 *)

Lines == DOMAIN aff_cpus

\* The groups of CPUs of which each is to host one line.
Places ==
  CASE test = "OneThreadPerLogicalCoreOpenMP" -> {{c} : c \in Cpus(topo)}
    [] test = "OneThreadPerSocketOpenMP" -> SocketSet(topo)
    [] test \in BySocket -> SocketSet(topo)
    [] test = "OneTaskPerNumaNode" -> topo.numa_nodes
    [] OTHER -> topo.cores

Hosted(place) == {k \in Lines : aff_cpus[k] \subseteq place}

\* The width of a line, where the test fixes it.
WidthOK(k) ==
  CASE test \in BySocket -> Cardinality(aff_cpus[k]) = job.num_omp_threads
    [] test = "OneTaskPerNumaNode" ->
         Cardinality(aff_cpus[k]) = job.num_cpus_per_task
    [] test \in ByTask \cup {"OneThreadPerPhysicalCoreOpenMPnomt"} ->
         Cardinality(aff_cpus[k]) = 1
    [] OTHER -> TRUE

\* The lines one place is to host.
LinesPerPlace == IF test \in BySocket THEN job.num_omp_threads ELSE 1

Batch(k) == (k - 1) \div PerSocket

\* The order the task tests are named for: consecutive tasks share a socket
\* until it is full, or go round the sockets in turn.
OrderOK ==
  CASE test = "ConsecutiveSocketFilling" ->
         \A j, k \in Lines : Batch(j) = Batch(k) =>
           \E s \in SocketSet(topo) : aff_cpus[j] \cup aff_cpus[k] \subseteq s
    [] test = "AlternateSocketFilling" ->
         \A k \in Lines :
           aff_cpus[k] \subseteq topo.sockets[((k - 1) % NumSockets(topo)) + 1]
    [] OTHER -> TRUE

\* The lines read so far can be completed to the placement the test is for.
Fits ==
  /\ \A k \in Lines : WidthOK(k) /\ \E p \in Places : k \in Hosted(p)
  /\ \A p \in Places : Cardinality(Hosted(p)) <= LinesPerPlace
  /\ OrderOK

\* The lines read are that placement.
Placed ==
  /\ Fits
  /\ \A p \in Places : Cardinality(Hosted(p)) = LinesPerPlace

\* A test that passes has seen the placement its description promises: every
\* core, socket or NUMA node hosts exactly the threads it should, although
\* consume_cpu_set only ever looks at one line and the CPUs that are left.
PassMeansPlaced == result = "pass" => Placed

\* A test fails only on a misplacement: a line is refused only if no output
\* that starts so is right, and the CPUs left at the end, the number of NUMA
\* lines or a short output fail no right placement.
FailMeansMisplaced ==
  /\ result = "sanity_error" => ~Fits
  /\ result \in {"wrong_count", "index_error", "not_consumed"} => ~Placed
=============================================================================
