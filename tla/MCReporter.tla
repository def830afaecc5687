------------------------------ MODULE MCReporter ------------------------------
(***************************************************************************)
(* Two systems for TLC: eiger has no partition of GH200 nodes, cp2k is a   *)
(* recipe for GH200 only.  Stream exists for the Cray environment and for  *)
(* uenvs, Cp2k in two variants.                                            *)
(***************************************************************************)
EXTENDS Reporter

MCPartitions == {"daint:normal", "eiger:mc"}
MCSystemOf == [p \in MCPartitions |-> IF p = "daint:normal" THEN "daint" ELSE "eiger"]
MCBaseEnvirons == [p \in MCPartitions |->
    IF p = "daint:normal" THEN << <<"PrgEnv">> >> ELSE << <<"builtin">> >>]

Image(name, uarch) == [name |-> name, version |-> "1", uarch |-> uarch]
MCImages == {Image("gnu", "gh200"), Image("cp2k", "gh200"), Image("cp2k", "zen2")}
MCDeployed == {
    {},
    {<<Image("gnu", "gh200"), "daint">>},
    {<<Image("cp2k", "zen2"), "daint">>, <<Image("gnu", "gh200"), "eiger">>},
    {<<Image("cp2k", "gh200"), "daint">>, <<Image("cp2k", "zen2"), "eiger">>}}

Gnu == <<"gnu", "1">>
Cp2k == <<"cp2k", "1", "gh200">>
MCRecipes == {<<"gnu">>, Gnu, Cp2k}
MCUnreadable == {{}, {Gnu}}
MCRecipeEnvs == [r \in MCRecipes |-> IF r = Gnu THEN <<"default", "tools">> ELSE <<"default">>]

Test(prefix, base, params, dir) ==
    [prefix |-> prefix, base |-> base, params |-> params, dir |-> dir, file |-> base]
StreamCpe == Test("CPE_", "Stream", "", "microbenchmarks")
StreamUenv == Test("Uenv_", "Stream", "", "microbenchmarks")
Cp2kSmall == Test("", "Cp2k", "%size=1", "apps")
Cp2kLarge == Test("", "Cp2k", "%size=2", "apps")
MCTests == {StreamCpe, StreamUenv, Cp2kSmall, Cp2kLarge}
MCValid == [t \in MCTests |->
    CASE t = StreamCpe -> {<<"PrgEnv">>}
      [] t = StreamUenv -> {<<Gnu, "tools">>}
      [] OTHER -> {<<Cp2k, "default">>}]

MCSelected == [f \in {"--mode", "--tag"} \X {"prod", "maint", "tag"} |->
    IF f[2] = "maint" THEN {StreamUenv, Cp2kSmall} ELSE MCTests \ {Cp2kSmall}]

MCAskLists == {<<"daint", "eiger">>}

MCMatrices == {
    <<>>,
    << <<"daint", "daint", "prod">>, <<"eiger", "eiger">> >>,
    << <<"daint", "daint", "prod">>, <<"eiger", "eiger", "maint">> >>,
    << <<"a", "daint", "prod">>, <<"a", "eiger", "maint">> >>,
    << <<"a", "daint", "tag">>, <<"b", "", "">>, <<"a", "daint", "tag">> >>}
=============================================================================
