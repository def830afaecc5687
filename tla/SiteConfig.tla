------------------------------ MODULE SiteConfig ------------------------------
(***************************************************************************)
(* cscs.py: how the environments of the uenv images are added to the       *)
(* partitions of the site configuration.  The configuration is read again  *)
(* by every ReFrame process, by those of the reporter as well.             *)
(***************************************************************************)
EXTENDS Naturals, Sequences

CONSTANTS
    Partitions,     \* the partitions of all the systems
    SystemOf,       \* partition -> its system
    HasUenv,        \* the partitions with the feature 'uenv'
    BaseEnvirons    \* partition -> the names of its own environments

ASSUME SiteAssumption ==
    /\ HasUenv \subseteq Partitions
    /\ DOMAIN SystemOf = Partitions /\ DOMAIN BaseEnvirons = Partitions
    /\ \A p \in Partitions :
          BaseEnvirons[p] \in Seq({BaseEnvirons[p][i] : i \in DOMAIN BaseEnvirons[p]})

\* An environment of a uenv: its name, the uenv, and its target_systems.
Environment(name, uenv, targets) == [name |-> name, uenv |-> uenv, targets |-> targets]

\* Valid on every system (the uenv was given by the user).
Everywhere == {"*"}

ValidOn(env, system) == system \in env.targets \/ env.targets = Everywhere

\* valid_system_uenv_names, in the order of the uenvs.
ValidNames(envs, system) ==
    LET names[n \in 0..Len(envs)] ==
            IF n = 0 THEN <<>>
            ELSE IF ValidOn(envs[n], system) THEN Append(names[n - 1], envs[n].name)
            ELSE names[n - 1]
    IN  names[Len(envs)]

Merged(p) == p \in HasUenv

Environs(envs, p) ==
    BaseEnvirons[p] \o (IF Merged(p) THEN ValidNames(envs, SystemOf[p]) ELSE <<>>)

\* The resources uenv and uenv_views of a partition: --uenv={uenv}.
UenvResources(envs, p) == IF envs # <<>> /\ Merged(p) THEN 1 ELSE 0
=============================================================================
