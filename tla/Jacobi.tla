-------------------------------- MODULE Jacobi --------------------------------
(***************************************************************************)
(* The Jacobi solver of the profiling checks (C++/_main.cc, _jacobi.cc):   *)
(* each rank has a stripe of the rows of the grid and one row of each      *)
(* neighbour, which it gets again before each sweep.                       *)
(*                                                                         *)
(* Of a row the model knows how often it has been swept, and whether it    *)
(* holds what the algorithm gives for so many sweeps of the whole grid.    *)
(***************************************************************************)
EXTENDS Integers, Sequences, FiniteSets

CONSTANTS
    NumProcs,   \* iNumProcs
    Rows,       \* iRows
    MaxIter     \* bound on ITERATIONS

ASSUME JacobiAssumption ==
    /\ NumProcs \in Nat \ {0} /\ Rows \in Nat /\ MaxIter \in Nat \ {0}
    /\ NumProcs <= Rows - 2

VARIABLES
    pc,
    iIterMax,   \* rank -> the iterations to do, 0 before the broadcast
    iIterCount,
    U, uold,    \* rank -> row -> what the row holds
    zeroed,     \* the ranks whose uold happens to be zero at first
    posted,     \* rank -> receives without their message: <<from, tag, row>>
    chan,       \* <<from, to, tag>> -> the messages on their way
    eager,      \* sends are over before they are received
    rounds,     \* rank -> how often it has joined MPI_Allreduce
    verdict,    \* round -> the residual is within the tolerance
    sums,       \* the ranks in MPI_Reduce, with the rows they have added
    summary     \* what rank 0 prints

mpi == <<posted, chan, rounds, verdict>>
vars == <<pc, iIterMax, iIterCount, U, uold, zeroed, mpi, eager, sums, summary>>

-----------------------------------------------------------------------------
Ranks == 0..NumProcs - 1
Last == NumProcs - 1

Boundary == {0, Rows - 1}
Interior == 1..Rows - 2

iRowFirst(r) == (r * (Rows - 2)) \div NumProcs

iRowLast(r) ==
    IF r = Last THEN Rows - 1 ELSE ((r + 1) * (Rows - 2)) \div NumProcs + 1

Stripe(r) == iRowFirst(r)..iRowLast(r)

\* The rows a rank sweeps.
Own(r) == iRowFirst(r) + 1..iRowLast(r) - 1

\* What a row holds.
Row(k, right) == [sweeps |-> k, right |-> right]
Garbage == Row(0, FALSE)

Tags == {10, 11}
iTagMoveLeft == 10
iTagMoveRight == 11

Links == {l \in Ranks \X Ranks \X Tags : l[2] = l[1] + 1 \/ l[1] = l[2] + 1}

NoSummary == [printed |-> FALSE, iterations |-> 0, sums |-> {}]

\* Init, InitializeMatrix: afU is zero; uold is not initialized.
Init ==
    /\ pc = [r \in Ranks |-> "bcast"]
    /\ iIterMax = [r \in Ranks |-> 0]
    /\ iIterCount = [r \in Ranks |-> 0]
    /\ U = [r \in Ranks |-> [j \in Stripe(r) |-> Row(0, TRUE)]]
    /\ zeroed \in SUBSET Ranks
    /\ uold = [r \in Ranks |->
                  [j \in Stripe(r) |-> IF r \in zeroed THEN Row(0, TRUE) ELSE Garbage]]
    /\ posted = [r \in Ranks |-> {}]
    /\ chan = [l \in Links |-> <<>>]
    /\ eager \in BOOLEAN
    /\ rounds = [r \in Ranks |-> 0]
    /\ verdict = <<>>
    /\ sums = {}
    /\ summary = NoSummary

Goto(r, l) == pc' = [pc EXCEPT ![r] = l]

\* The condition of the while loop.
Continue(r, count, max, converged) ==
    Goto(r, IF count < max /\ ~converged THEN "receive" ELSE "error")

-----------------------------------------------------------------------------
(* Rank 0 alone reads ITERATIONS, 5 when it is not a positive number, and  *)
(* broadcasts it.                                                          *)
Bcast(r) ==
    /\ pc[r] = "bcast"
    /\ \E max \in 1..MaxIter :
          /\ IF r = 0 THEN TRUE ELSE max = iIterMax[0]
          /\ iIterMax' = [iIterMax EXCEPT ![r] = max]
          /\ Continue(r, 0, max, FALSE)
    /\ UNCHANGED <<iIterCount, U, uold, zeroed, mpi, eager, sums, summary>>

-----------------------------------------------------------------------------
(* ExchangeJacobiMpiData *)

Receives(r) ==
    {x \in {<<r - 1, iTagMoveRight, iRowFirst(r)>>, <<r + 1, iTagMoveLeft, iRowLast(r)>>} :
        x[1] \in Ranks}

Sends(r) ==
    {x \in {<<r + 1, iTagMoveRight, iRowLast(r) - 1>>, <<r - 1, iTagMoveLeft, iRowFirst(r) + 1>>} :
        x[1] \in Ranks}

PostReceives(r) ==
    /\ pc[r] = "receive"
    /\ posted' = [posted EXCEPT ![r] = Receives(r)]
    /\ Goto(r, "send")
    /\ UNCHANGED <<iIterMax, iIterCount, U, uold, zeroed, chan, eager, rounds, verdict,
                   sums, summary>>

PostSends(r) ==
    /\ pc[r] = "send"
    /\ chan' = [l \in Links |->
          IF \E x \in Sends(r) : l = <<r, x[1], x[2]>>
          THEN LET x == CHOOSE y \in Sends(r) : l = <<r, y[1], y[2]>>
               IN  Append(chan[l], U[r][x[3]])
          ELSE chan[l]]
    /\ Goto(r, "copy")
    /\ UNCHANGED <<iIterMax, iIterCount, U, uold, zeroed, posted, eager, rounds, verdict,
                   sums, summary>>

\* The rows of the stripe, but neither those received nor the boundary.
Copy(r) ==
    /\ pc[r] = "copy"
    /\ uold' = [uold EXCEPT ![r] =
                   [j \in Stripe(r) |-> IF j \in Own(r) THEN U[r][j] ELSE uold[r][j]]]
    /\ Goto(r, "wait")
    /\ UNCHANGED <<iIterMax, iIterCount, U, zeroed, mpi, eager, sums, summary>>

\* MPI: the oldest message of a link is for the receive of its tag.
Deliver(r) ==
    /\ \E x \in posted[r] :
          LET l == <<x[1], r, x[2]>> IN
          /\ chan[l] # <<>>
          /\ uold' = [uold EXCEPT ![r][x[3]] = Head(chan[l])]
          /\ chan' = [chan EXCEPT ![l] = Tail(@)]
          /\ posted' = [posted EXCEPT ![r] = @ \ {x}]
    /\ UNCHANGED <<pc, iIterMax, iIterCount, U, zeroed, eager, rounds, verdict, sums, summary>>

ReceivesDone(r) == posted[r] = {}
SendsDone(r) == eager \/ \A l \in Links : l[1] = r => chan[l] = <<>>

\* Mutated RequestsDone: MPI_Waitany.
AnyRequestDone(r) == Receives(r) = {} \/ posted[r] # Receives(r)

RequestsDone(r) == ReceivesDone(r) /\ SendsDone(r)

Waitall(r) ==
    /\ pc[r] = "wait" /\ RequestsDone(r)
    /\ Goto(r, "sweep")
    /\ UNCHANGED <<iIterMax, iIterCount, U, uold, zeroed, mpi, eager, sums, summary>>

-----------------------------------------------------------------------------
(* Jacobi *)

\* The neighbour i of a row that has been swept k times holds what the
\* stencil is about.
Agrees(r, i, k) ==
    /\ uold[r][i].right
    /\ i \in Boundary \/ uold[r][i].sweeps = k

Stencil(r, j) ==
    LET k == uold[r][j].sweeps
    IN  Row(k + 1, uold[r][j].right /\ Agrees(r, j - 1, k) /\ Agrees(r, j + 1, k))

\* The threads share the rows, which do not depend on one another.
Sweep(r) ==
    /\ pc[r] = "sweep"
    /\ U' = [U EXCEPT ![r] =
                [j \in Stripe(r) |-> IF j \in Own(r) THEN Stencil(r, j) ELSE U[r][j]]]
    /\ rounds' = [rounds EXCEPT ![r] = @ + 1]
    /\ Goto(r, "allreduce")
    /\ UNCHANGED <<iIterMax, iIterCount, uold, zeroed, posted, chan, eager, verdict, sums, summary>>

\* Every rank has joined the round.
Joined(r) == \A s \in Ranks : rounds[s] >= rounds[r]

\* The sum of a round is the same everywhere.
Allreduce(r) ==
    /\ pc[r] = "allreduce" /\ Joined(r)
    /\ \E converged \in BOOLEAN :
          /\ IF rounds[r] <= Len(verdict)
             THEN converged = verdict[rounds[r]] /\ UNCHANGED verdict
             ELSE verdict' = Append(verdict, converged)
          /\ iIterCount' = [iIterCount EXCEPT ![r] = @ + 1]
          /\ Continue(r, iIterCount[r] + 1, iIterMax[r], converged)
    /\ UNCHANGED <<iIterMax, U, uold, zeroed, posted, chan, eager, rounds, sums, summary>>

-----------------------------------------------------------------------------
(* CheckError, PrintResults *)

\* Mutated ErrorRows: the rows received count as well.
ErrorRowsAll(r) == Stripe(r)

ErrorRows(r) ==
    Stripe(r) \ ((IF r # 0 THEN {iRowFirst(r)} ELSE {})
                 \cup (IF r # Last THEN {iRowLast(r)} ELSE {}))

CheckError(r) ==
    /\ pc[r] = "error"
    /\ sums' = sums \cup {[rank |-> r, rows |-> ErrorRows(r)]}
    /\ Goto(r, IF r = 0 THEN "print" ELSE "done")
    /\ UNCHANGED <<iIterMax, iIterCount, U, uold, zeroed, mpi, eager, summary>>

\* Mutated Prints: the last rank has the summary.
PrintsLast(r) == r = NumProcs

Prints(r) == r = 0

PrintResults(r) ==
    /\ pc[r] = "print"
    /\ Cardinality(sums) = NumProcs
    /\ summary' = IF Prints(r)
                  THEN [printed |-> TRUE, iterations |-> iIterCount[r], sums |-> sums]
                  ELSE summary
    /\ Goto(r, "done")
    /\ UNCHANGED <<iIterMax, iIterCount, U, uold, zeroed, mpi, eager, sums>>

-----------------------------------------------------------------------------
Exchange(r) == PostReceives(r) \/ PostSends(r) \/ Copy(r) \/ Waitall(r)

Rank(r) ==
    \/ Bcast(r) \/ Exchange(r) \/ Sweep(r) \/ Allreduce(r)
    \/ CheckError(r) \/ PrintResults(r)

Done == \A r \in Ranks : pc[r] = "done"

Terminating == Done /\ UNCHANGED vars

Next == (\E r \in Ranks : Rank(r) \/ Deliver(r)) \/ Terminating

Spec == Init /\ [][Next]_vars

\* The processes run, and MPI delivers what is sent.
FairSpec == Spec /\ \A r \in Ranks : WF_vars(Rank(r)) /\ WF_vars(Deliver(r))

-----------------------------------------------------------------------------
(* The error of the summary is that of every row of the grid, each counted *)
(* once, after the sweeps it says (_main.cc:212-231).                      *)
ErrorOfTheGrid ==
    summary.printed =>
        /\ \A j \in 0..Rows - 1 : Cardinality({s \in summary.sums : j \in s.rows}) = 1
        /\ \A r \in Ranks : rounds[r] = summary.iterations

OwnerOf(j) == CHOOSE r \in Ranks : j \in Own(r)

\* The boundary rows of the old grid that happen to be zero.
BoundarySet == (IF 0 \in zeroed THEN {0} ELSE {}) \cup (IF Last \in zeroed THEN {Rows - 1} ELSE {})

Promise == INSTANCE JacobiSweeps WITH
    values <- [j \in Interior |-> U[OwnerOf(j)][j]],
    boundary <- BoundarySet,
    finished <- summary.printed

(* The ranks together do the sweeps of the whole grid, as JacobiSweeps     *)
(* says: no row is swept from rows of another sweep, or not yet received,  *)
(* memory nobody has set spreads by one row per sweep and no faster, and   *)
(* the summary waits for all (_jacobi.cc:61-95, 119-163).                  *)
KeepsPromise == Promise!PromiseSpec

(* The summary is printed in the end, even if no send is over before it    *)
(* has been received: no cycle of ranks waits (_main.cc:165-180).          *)
SummaryPrinted == <>(summary.printed)
=============================================================================
