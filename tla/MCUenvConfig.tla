----------------------------- MODULE MCUenvConfig -----------------------------
(***************************************************************************)
(* Four uenvs for TLC: "gnu" has two environments, "nometa" has no         *)
(* reframe.yaml, "bad" has an environment without features, "sqfs" is a    *)
(* path.                                                                   *)
(***************************************************************************)
EXTENDS UenvConfig

MCPartitions == {"daint:login", "daint:normal"}
MCSystemOf == [p \in MCPartitions |-> "daint"]
MCBaseEnvirons == [p \in MCPartitions |-> << <<"builtin", "">> >>]
MCUenvs == {"gnu", "nometa", "bad", "sqfs"}
MCKeys == [u \in MCUenvs |->
    CASE u = "gnu"  -> <<"default", "tools">>
      [] u = "nometa" -> <<>>
      [] OTHER -> <<"default">>]
MCPretty == [u \in MCUenvs |-> u]
MCLists == {<<>>, <<"gnu">>, <<"nometa", "gnu">>, <<"gnu", "nometa", "bad">>}
MCHandLists == {<<"sqfs", "gnu">>, <<"gnu", "nometa", "gnu">>, <<"nometa", "sqfs">>}
=============================================================================
