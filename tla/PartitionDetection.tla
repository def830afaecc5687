-------------------------- MODULE PartitionDetection --------------------------
(***************************************************************************)
(* What the detection of the remote partitions promises to build_config,   *)
(* whatever the jobs do: each node type is settled once - the user skips   *)
(* it, or it gets its partition, filled by a job or not - and the          *)
(* configuration is complete only when all of them are.  Nothing is        *)
(* settled after the end, and it fails only when a command can.            *)
(***************************************************************************)
CONSTANTS Types,    \* the node types found by search_node_types
          MaySkip,  \* the user is asked
          MayFail   \* a command of the detection may raise

VARIABLES result, phase

pvars == <<result, phase>>

Results == {"open", "plain", "filled"} \cup (IF MaySkip THEN {"skipped"} ELSE {})

PromiseInit == result = [t \in Types |-> "open"] /\ phase = "running"

Settle(t) ==
    /\ phase = "running" /\ result[t] = "open"
    /\ \E r \in Results \ {"open"} : result' = [result EXCEPT ![t] = r]
    /\ UNCHANGED phase

Complete ==
    /\ phase = "running" /\ \A t \in Types : result[t] # "open"
    /\ phase' = "finished"
    /\ UNCHANGED result

Fail ==
    /\ phase = "running" /\ MayFail
    /\ phase' = "failed"
    /\ UNCHANGED result

PromiseNext == (\E t \in Types : Settle(t)) \/ Complete \/ Fail

PromiseSpec == PromiseInit /\ [][PromiseNext]_pvars
=============================================================================
