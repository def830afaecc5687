----------------------------- MODULE JacobiSweeps -----------------------------
(***************************************************************************)
(* What the Jacobi program promises: the rows of one grid are swept again  *)
(* and again, each from the values of the sweep before, and the summary is *)
(* about a grid whose rows have all been swept as often.  Neither ranks    *)
(* nor messages.  A boundary row that nobody has set spoils one row more   *)
(* with each sweep.                                                        *)
(***************************************************************************)
EXTENDS Integers

CONSTANT Rows

VARIABLES
    values,    \* row -> how often it has been swept, and whether it is right
    boundary,  \* the boundary rows that are set
    finished   \* the summary is printed

Inside == 1..Rows - 2
Edges == {0, Rows - 1}

Neighbours(j) == {i \in Inside : i = j + 1 \/ j = i + 1}

\* The row b is among those row j depends on after k sweeps.
Reaches(b, j, k) == j - b <= k /\ b - j <= k

Value(j, k) ==
    [sweeps |-> k, right |-> \A b \in Edges \ boundary : ~Reaches(b, j, k)]

PromiseInit ==
    /\ boundary \in SUBSET Edges
    /\ values = [j \in Inside |-> Value(j, 0)]
    /\ finished = FALSE

\* A row needs the last value of its neighbours, who may have gone on already.
SweepRows(S) ==
    /\ \A j \in S : \A i \in Neighbours(j) :
          values[i].sweeps \in {values[j].sweeps, values[j].sweeps + 1}
    /\ values' = [j \in Inside |-> IF j \in S THEN Value(j, values[j].sweeps + 1)
                                   ELSE values[j]]
    /\ UNCHANGED <<boundary, finished>>

Finish ==
    /\ \A i, j \in Inside : values[i].sweeps = values[j].sweeps
    /\ finished' = TRUE
    /\ UNCHANGED <<values, boundary>>

PromiseNext == (\E S \in SUBSET Inside : SweepRows(S)) \/ Finish

PromiseSpec == PromiseInit /\ [][PromiseNext]_<<values, boundary, finished>>
=============================================================================
