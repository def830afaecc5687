-------------------------- MODULE MCAffinityCheck --------------------------
(***************************************************************************)
(* Four nodes: two sockets of two cores with two CPUs each, numbered as    *)
(* Linux numbers them (the second CPU of a core comes after all the first  *)
(* ones); two sockets of two cores without multithreading; one socket of   *)
(* four cores in two NUMA nodes; and one socket of two cores with two CPUs *)
(* each.  Binding to single CPUs is left out on the eight CPUs of the      *)
(* first node, where their orders alone are 109601 states.                 *)
(***************************************************************************)
EXTENDS AffinityCheck

Smt == [num_cpus |-> 8, num_cpus_per_core |-> 2,
        cores |-> {{0, 4}, {1, 5}, {2, 6}, {3, 7}},
        numa_nodes |-> {{0, 1, 4, 5}, {2, 3, 6, 7}},
        sockets |-> <<{0, 1, 4, 5}, {2, 3, 6, 7}>>]

NoSmt == [num_cpus |-> 4, num_cpus_per_core |-> 1,
          cores |-> {{0}, {1}, {2}, {3}},
          numa_nodes |-> {{0}, {1}, {2}, {3}},
          sockets |-> <<{0, 1}, {2, 3}>>]

OneSocket == [num_cpus |-> 4, num_cpus_per_core |-> 1,
              cores |-> {{0}, {1}, {2}, {3}},
              numa_nodes |-> {{0, 1}, {2, 3}},
              sockets |-> <<{0, 1, 2, 3}>>]

SmallSmt == [num_cpus |-> 4, num_cpus_per_core |-> 2,
             cores |-> {{0, 2}, {1, 3}},
             numa_nodes |-> {{0, 1, 2, 3}},
             sockets |-> <<{0, 1, 2, 3}>>]

MCTopologies == {Smt, NoSmt, OneSocket, SmallSmt}
MCCases ==
  (Tests \X MCTopologies) \ {<<"OneThreadPerLogicalCoreOpenMP", Smt>>}

\* Every single CPU, whole and mixed cores, NUMA nodes and sockets, and sets
\* of the right size that cross a boundary.
MCReports == {{c} : c \in 0 .. 7}
  \cup {{0, 4}, {1, 5}, {2, 6}, {0, 1}, {2, 3}, {0, 2}, {1, 6}}
  \cup {{0, 1, 4, 5}, {2, 3, 6, 7}, {0, 1, 2, 3}, {0, 1, 4}}

=============================================================================
