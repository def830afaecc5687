--------------------------- MODULE MCHaloExchange ---------------------------
(***************************************************************************)
(* Six ranks, as the test uses, and the grids of input.txt: a rank that is *)
(* its own neighbour twice, two ranks that are each other's both           *)
(* neighbours, and the full 3 x 2 grid; then a ring with unequal halos, on *)
(* both sides of the eager limit; and a line that does not fit, before one *)
(* that would.                                                             *)
(***************************************************************************)
EXTENDS HaloExchange

MCLines ==
  << [dims |-> <<2, 1, 1>>, halos |-> <<1, 1, 1>>],
     [dims |-> <<2, 2, 1>>, halos |-> <<2, 2, 2>>],
     [dims |-> <<3, 2>>, halos |-> <<2, 2>>],
     [dims |-> <<3, 1>>, halos |-> <<1, 2>>],
     [dims |-> <<4, 2>>, halos |-> <<1, 1>>],
     [dims |-> <<2>>, halos |-> <<1>>] >>
=============================================================================
