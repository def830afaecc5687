---------------------------- MODULE HaloExchange ----------------------------
(***************************************************************************)
(* The halo cell exchange benchmark, halo_cell_exchange.c.  Rank 0 reads a *)
(* line with a grid and a halo size per dimension and broadcasts it; the   *)
(* first ranks of the world form a periodic Cartesian grid, exchange halos *)
(* with both neighbours in every dimension NCALLS times, reduce the time   *)
(* to the first rank of the grid, which prints it, and go on with the next *)
(* line.                                                                   *)
(*                                                                         *)
(* MPI matches messages of one sender, receiver, tag and communicator in   *)
(* the order they were posted, and everything here has tag 1: the k-th     *)
(* receive a rank posts for another takes the k-th message that one sends  *)
(* it.  A send of at most EagerLimit cells completes at once, a larger one *)
(* when its receive has been posted.                                       *)
(***************************************************************************)
EXTENDS Integers, Sequences, FiniteSets

CONSTANTS
  CommSize,   \* the number of ranks of MPI_COMM_WORLD
  Lines,      \* the benchmark lines of the input file: [dims, halos]
  NCALLS,     \* exchanges per line
  EagerLimit  \* the largest message MPI buffers

Ranks == 0 .. CommSize - 1

ASSUME HaloAssumption ==
  /\ CommSize \in Nat \ {0}
  /\ NCALLS \in Nat \ {0}
  /\ EagerLimit \in Nat
  /\ Lines \in Seq([dims : Seq(Nat \ {0}), halos : Seq(Nat)])
  /\ \A k \in DOMAIN Lines : Len(Lines[k].dims) = Len(Lines[k].halos)

VARIABLES
  pc,       \* where a rank is
  line,     \* the number of the line a rank has received last
  reversed, \* whether MPI has renumbered the ranks of the grid
  call,     \* j: the exchanges a rank has completed for this line
  step,     \* how many iterations of the two loops it has done in this one
  posted,   \* posted[r][s]: the receives r has posted for s, in order
  sent,     \* sent[s][r]: the messages s has sent to r, in order
  reduced,  \* the ranks that have given their time to the reduction
  printed   \* the lines for which a result was printed

vars == <<pc, line, reversed, call, step, posted, sent, reduced, printed>>

-----------------------------------------------------------------------------
(* The grid.                                                               *)

\* The number of ranks of a grid.
Product(dims) ==
  LET p[n \in 0 .. Len(dims)] == IF n = 0 THEN 1 ELSE dims[n] * p[n - 1]
  IN  p[Len(dims)]

Grid(k) == 0 .. Product(Lines[k].dims) - 1

\* The line and the dimensions a rank works on.
This(r) == Lines[line[r]]
NDims(r) == Len(This(r).dims)

\* MPI_Comm_split keeps the order of the world ranks, MPI_Cart_create may
\* renumber them; either map is its own inverse.
Renumber(dims, r) == IF reversed THEN Product(dims) - 1 - r ELSE r
CartRank(r) == Renumber(This(r).dims, r)

\* MPI_Cart_shift by 1 in dimension i of a row-major, periodic grid: the rank
\* that is `by` away.
Stride(dims, i) == Product(SubSeq(dims, i + 1, Len(dims)))
Shift(dims, c, i, by) ==
  LET stride == Stride(dims, i)
      coord  == (c \div stride) % dims[i]
  IN  c + (((coord + by) % dims[i]) - coord) * stride

Neighbour(r, i, by) ==
  LET dims == This(r).dims IN Renumber(dims, Shift(dims, CartRank(r), i, by))
RankSource(r, i) == Neighbour(r, i, -1)
RankDest(r, i) == Neighbour(r, i, 1)

\* A face of dimension i in exchange j: the request i * 2 or i * 2 + 1.
Face(r, i, side) ==
  [call |-> call[r], dim |-> i, side |-> side, size |-> This(r).halos[i]]

-----------------------------------------------------------------------------
(* Reading the lines.                                                      *)

NoMessages == [r \in Ranks |-> [s \in Ranks |-> <<>>]]

Init ==
  /\ pc = [r \in Ranks |-> "read"]
  /\ line = [r \in Ranks |-> 0]
  /\ reversed = FALSE
  /\ call = [r \in Ranks |-> 0]
  /\ step = [r \in Ranks |-> 0]
  /\ posted = NoMessages
  /\ sent = NoMessages
  /\ reduced = {}
  /\ printed = <<>>

Goto(r, to) == pc' = [pc EXCEPT ![r] = to]

\* Mutant of TooLarge: >= for >.
TooLargeOrFull(k) == Product(Lines[k].dims) >= CommSize

\* The line needs more ranks than there are.
TooLarge(k) == Product(Lines[k].dims) > CommSize

\* MPI_Bcast of end and of the parameters: rank 0 reads the next line and goes
\* on, another rank follows when rank 0 has sent it.  A line that is too large
\* ends the program.
Bcast(r) ==
  LET next == line[r] + 1
  IN  /\ pc[r] = "read"
      /\ r = 0 \/ line[0] > line[r]
      /\ line' = [line EXCEPT ![r] = next]
      /\ Goto(r, IF next > Len(Lines) \/ TooLarge(next)
                 THEN "finalized" ELSE "split")
      /\ UNCHANGED <<reversed, call, step, posted, sent, reduced, printed>>

\* MPI_Comm_split and MPI_Cart_create: every rank of the world takes part, the
\* ranks beyond the grid go back to the next line.
Split ==
  /\ \A r \in Ranks : pc[r] = "split"
  /\ reversed' \in BOOLEAN
  /\ pc' = [r \in Ranks |-> IF r \in Grid(line[r]) THEN "post" ELSE "read"]
  /\ call' = [r \in Ranks |-> 0]
  /\ step' = [r \in Ranks |-> 0]
  /\ posted' = NoMessages
  /\ sent' = NoMessages
  /\ reduced' = {}
  /\ UNCHANGED <<line, printed>>

-----------------------------------------------------------------------------
(* An exchange.                                                            *)

\* One iteration of the first loop: MPI_Irecv from both neighbours.
PostReceives(r) ==
  LET i == step[r] + 1
      fromSource == [posted[r] EXCEPT ![RankSource(r, i)] =
                       Append(@, Face(r, i, "source"))]
  IN  /\ pc[r] = "post"
      /\ step[r] < NDims(r)
      /\ posted' = [posted EXCEPT ![r] =
           [fromSource EXCEPT ![RankDest(r, i)] = Append(@, Face(r, i, "dest"))]]
      /\ step' = [step EXCEPT ![r] = @ + 1]
      /\ UNCHANGED <<pc, line, reversed, call, sent, reduced, printed>>

\* Mutants of PostSends: the last dimension first; the faces swapped.
PostSendsBackwards(r) ==
  LET i == 2 * NDims(r) - step[r]
      toSource == [sent[r] EXCEPT ![RankSource(r, i)] =
                     Append(@, Face(r, i, "source"))]
  IN  /\ pc[r] = "post"
      /\ step[r] \in NDims(r) .. 2 * NDims(r) - 1
      /\ sent' = [sent EXCEPT ![r] =
           [toSource EXCEPT ![RankDest(r, i)] = Append(@, Face(r, i, "dest"))]]
      /\ step' = [step EXCEPT ![r] = @ + 1]
      /\ UNCHANGED <<pc, line, reversed, call, posted, reduced, printed>>

\* One iteration of the second loop: MPI_Isend to both neighbours.
PostSends(r) ==
  LET i == step[r] + 1 - NDims(r)
      toSource == [sent[r] EXCEPT ![RankSource(r, i)] =
                     Append(@, Face(r, i, "source"))]
  IN  /\ pc[r] = "post"
      /\ step[r] \in NDims(r) .. 2 * NDims(r) - 1
      /\ sent' = [sent EXCEPT ![r] =
           [toSource EXCEPT ![RankDest(r, i)] = Append(@, Face(r, i, "dest"))]]
      /\ step' = [step EXCEPT ![r] = @ + 1]
      /\ UNCHANGED <<pc, line, reversed, call, posted, reduced, printed>>

\* The requests of a rank that are complete: receives with a message, sends
\* that are buffered or received.
ReceivesDone(r) == \A s \in Ranks : Len(posted[r][s]) <= Len(sent[s][r])
SendsDone(r) ==
  \A s \in Ranks : \A k \in DOMAIN sent[r][s] :
    sent[r][s][k].size <= EagerLimit \/ k <= Len(posted[s][r])

\* MPI_Waitall, and the next exchange or the reduction.
Waitall(r) ==
  /\ pc[r] = "post"
  /\ step[r] = 2 * NDims(r)
  /\ ReceivesDone(r) /\ SendsDone(r)
  /\ call' = [call EXCEPT ![r] = @ + 1]
  /\ step' = [step EXCEPT ![r] = 0]
  /\ Goto(r, IF call'[r] = NCALLS THEN "reduce" ELSE "post")
  /\ UNCHANGED <<line, reversed, posted, sent, reduced, printed>>

\* Mutant of Reduce: the first rank does not wait.
ReduceNotWaiting(r) ==
  /\ pc[r] = "reduce"
  /\ reduced' = reduced \cup {r}
  /\ printed' = IF CartRank(r) = 0 THEN Append(printed, line[r]) ELSE printed
  /\ Goto(r, "read")
  /\ UNCHANGED <<line, reversed, call, step, posted, sent>>

\* MPI_Reduce: a rank gives its time and goes on, the first rank of the grid
\* waits for all, and prints.
Reduce(r) ==
  /\ pc[r] = "reduce"
  /\ reduced' = reduced \cup {r}
  /\ CartRank(r) = 0 => reduced' = Grid(line[r])
  /\ printed' = IF CartRank(r) = 0 THEN Append(printed, line[r]) ELSE printed
  /\ Goto(r, "read")
  /\ UNCHANGED <<line, reversed, call, step, posted, sent>>

Rank(r) == Bcast(r) \/ PostReceives(r) \/ PostSends(r) \/ Waitall(r) \/ Reduce(r)

Done == (\A r \in Ranks : pc[r] = "finalized") /\ UNCHANGED vars

Next == Split \/ Done \/ \E r \in Ranks : Rank(r)

\* Some rank that can go on does: nothing in an exchange is repeated, so that
\* progress of the program as a whole is all its end needs.
Spec == Init /\ [][Next]_vars /\ WF_vars(Next)

-----------------------------------------------------------------------------
(* What makes the benchmark a halo exchange.                               *)

\* The receives of r for messages of s that have one, in the order MPI matches.
Matched(r, s) == DOMAIN posted[r][s] \cap DOMAIN sent[s][r]

\* Although every message has tag 1, a receive only ever takes a message of
\* the same exchange, dimension and size (no truncation, and no halo of the
\* next exchange of a faster neighbour), also where both neighbours are one
\* rank, or the rank itself; and where a dimension has at least three ranks,
\* the halo from one side is what the neighbour on that side sent towards
\* this rank.
MatchedAsMeant ==
  \A r, s \in Ranks : \A k \in Matched(r, s) :
    LET want == posted[r][s][k]
        got  == sent[s][r][k]
    IN  /\ want.call = got.call /\ want.dim = got.dim /\ want.size = got.size
        /\ pc[r] \in {"post", "reduce"} /\ This(r).dims[want.dim] >= 3 =>
              want.side # got.side

\* Mutant of Region: both receives of a dimension at one place.
RegionShared(r, f) ==
  LET first == (f.dim - 1) * 2 * f.size IN first .. first + f.size - 1

\* The part of the receive buffer a request of r writes to, and its size.
Region(r, f) ==
  LET first == ((f.dim - 1) * 2 + (IF f.side = "dest" THEN 1 ELSE 0)) * f.size
  IN  first .. first + f.size - 1

BufferSize(r) ==
  LET largest == CHOOSE h \in {This(r).halos[i] : i \in 1 .. NDims(r)} :
                   \A i \in 1 .. NDims(r) : This(r).halos[i] <= h
  IN  NDims(r) * 2 * largest

\* The receives of r that wait for their message.
Pending(r) ==
  UNION {{<<s, k>> : k \in Len(sent[s][r]) + 1 .. Len(posted[r][s])} : s \in Ranks}

EqualHalos(r) == \A i, j \in 1 .. NDims(r) : This(r).halos[i] = This(r).halos[j]

\* Receives in flight stay within the buffer, and with equal halo sizes, as
\* in all lines of input.txt, they write to disjoint parts of it.
ReceivesApart ==
  \A r \in Ranks : pc[r] = "post" =>
    /\ \A p \in Pending(r) :
         Region(r, posted[r][p[1]][p[2]]) \subseteq 0 .. BufferSize(r) - 1
    /\ EqualHalos(r) => \A p, q \in Pending(r) : p # q =>
         Region(r, posted[r][p[1]][p[2]]) \cap Region(r, posted[r][q[1]][q[2]])
           = {}

Fitting == {k \in DOMAIN Lines :
              \A l \in 1 .. k : Product(Lines[l].dims) <= CommSize}

\* The times printed are those of a finished exchange: every rank of the grid
\* has done all its calls, and has nothing in flight, when one prints.
PrintedWhenFinished ==
  [][printed' # printed =>
       LET k == printed'[Len(printed')]
       IN  \A r \in Grid(k) :
             /\ call[r] = NCALLS
             /\ \A s \in Ranks : Len(posted[r][s]) = Len(sent[s][r])]_vars

\* The test counts the result lines: every line that fits the ranks is
\* measured and printed, once and in order, and all ranks finish.
EveryLinePrinted ==
  <>(/\ \A r \in Ranks : pc[r] = "finalized"
     /\ printed = [k \in 1 .. Cardinality(Fitting) |-> k])
=============================================================================
