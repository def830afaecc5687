----------------------------- MODULE SlurmCluster -----------------------------
(***************************************************************************)
(* The Slurm cluster as the configuration autodetection sees it: the nodes *)
(* listed by "scontrol show nodes -o", and what SlurmContext derives from  *)
(* that list.  A node type is the set of features its nodes are left with  *)
(* once the excluded ones are filtered out.                                *)
(*                                                                         *)
(* Nodes are numbered in the order scontrol prints them: the code takes    *)
(* the first match of a regular expression in several places.              *)
(***************************************************************************)
EXTENDS Naturals, FiniteSets

CONSTANTS
    Nodes,         \* the nodes of the cluster, numbers in scontrol's order
    Feats,         \* node -> its ActiveFeatures
    Parts,         \* node -> the Slurm partitions it belongs to
    DefaultPart,   \* the partition marked Default=YES
    Gpus,          \* node -> number of GPUs in its Gres (0: no gpu Gres)
    Excluded       \* the features removed by --exclude

ASSUME ClusterAssumption ==
    /\ Nodes \subseteq Nat
    /\ IsFiniteSet(Nodes)
    /\ DOMAIN Feats = Nodes
    /\ DOMAIN Parts = Nodes
    /\ Gpus \in [Nodes -> Nat]

NoPartition == "no partition"

-----------------------------------------------------------------------------
(* What the features left after filtering say of a node. *)

FilterNodeFeats(n) == Feats[n] \ Excluded

\* A node whose features were all excluded belongs to no node type.
NodeTypes == {FilterNodeFeats(n) : n \in Nodes} \ {{}}

NodesOfType(t) == {n \in Nodes : FilterNodeFeats(n) = t}

DefaultTypes == {FilterNodeFeats(n) : n \in {m \in Nodes : DefaultPart \in Parts[m]}} \ {{}}

\* Several types in the default partition: none of them is the default one.
DefaultNodes ==
    IF Cardinality(DefaultTypes) > 1 THEN {} ELSE DefaultTypes

\* access_node is not empty: the jobs of this type need a --constraint.
NeedsConstraint(t) == t \notin DefaultNodes

-----------------------------------------------------------------------------
(* The greps on "ActiveFeatures": a node matches a type when it has every  *)
(* feature of the type, so the nodes of a richer type match as well.       *)

Matching(t) == {n \in Nodes : t \subseteq Feats[n]}

FirstMatch(t) == CHOOSE n \in Matching(t) : \A m \in Matching(t) : n <= m

\* Only the Gres of the first matching node is looked at.
FindDevices(t) == Gpus[FirstMatch(t)]

PartitionsSeen(t) == {Parts[n] : n \in Matching(t)}

\* One list of partitions for all the nodes: a partition called like a
\* feature wins, then the only partition there is.
AccessPartition(t) ==
    IF Cardinality(PartitionsSeen(t)) > 1 THEN NoPartition
    ELSE LET ps    == Parts[FirstMatch(t)]
             named == t \cap ps
         IN  IF named # {} THEN CHOOSE p \in named : TRUE
             ELSE IF Cardinality(ps) = 1 THEN CHOOSE p \in ps : TRUE
             ELSE NoPartition

-----------------------------------------------------------------------------
(* Where a job may be placed, by the sbatch options of its script: a       *)
(* "constraint" of type t, and the partition of "-p", the default one      *)
(* without it.                                                             *)

Eligible(t, opts) ==
    {n \in Nodes :
        /\ "constraint" \in opts => n \in Matching(t)
        /\ IF "part" \in opts THEN AccessPartition(t) \in Parts[n]
                              ELSE DefaultPart \in Parts[n]}

(* The clusters on which a job cannot be placed on a node of another type: *)
(* no type extends another one, and neither the partition of a "-p" nor a  *)
(* default partition used without a constraint mixes types.                *)
Homogeneous ==
    \A t \in NodeTypes, n \in Nodes :
        \/ FilterNodeFeats(n) = t
        \/ /\ ~(t \subseteq Feats[n])
           /\ AccessPartition(t) \notin Parts[n]
           /\ ~NeedsConstraint(t) => DefaultPart \notin Parts[n]
=============================================================================
