---------------------------- MODULE MCRemoteDetect ----------------------------
(***************************************************************************)
(* Small clusters for TLC.                                                 *)
(*                                                                         *)
(* The gpu nodes are alone in the default partition, the mc node has a     *)
(* partition named after its feature, the amd node belongs to two          *)
(* partitions (no -p can be derived) outside the default one: the three    *)
(* types take the three ways through job_submission.                       *)
(***************************************************************************)
EXTENDS RemoteDetect

SeparateNodes == 1..4
SeparateFeats == <<{"gpu"}, {"gpu"}, {"mc"}, {"amd"}>>
SeparateParts == <<{"normal"}, {"normal"}, {"mc"}, {"p1", "p2"}>>
SeparateGpus  == <<1, 2, 0, 4>>

\* The same three types, on one node each.
SingleNodes == 1..3
SingleFeats == <<{"gpu"}, {"mc"}, {"amd"}>>
SingleParts == <<{"normal"}, {"mc"}, {"p1", "p2"}>>
SingleGpus  == <<1, 0, 4>>

\* The line is printed for the type that has a second attempt.
OneType == {{"mc"}}
=============================================================================
