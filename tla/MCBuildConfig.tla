---------------------------- MODULE MCBuildConfig ----------------------------
(***************************************************************************)
(* A small machine for TLC.  "gcc" is contained in two module names,       *)
(* "gcc/12" in one, "none" in none.  The requests hold an unknown          *)
(* reservation between two known ones, and one named twice.                *)
(***************************************************************************)
EXTENDS BuildConfig

MCNames == {"gcc", "gcc/12", "none"}
MCAvail == [m \in MCNames |->
    CASE m = "gcc"    -> {"gcc", "gcc/12"}
      [] m = "gcc/12" -> {"gcc/12"}
      [] m = "none"   -> {}]
MCLists == {<<"none", "none", "gcc/12">>, <<"gcc", "none", "gcc/12">>}
MCRequests == {<<>>, <<"r1", "gone", "r2">>, <<"r2", "r2">>}
MCReservs == {<<>>, <<"r1">>, <<"r1", "r2">>}
=============================================================================
