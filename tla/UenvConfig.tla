------------------------------ MODULE UenvConfig ------------------------------
(***************************************************************************)
(* From a list of uenv images to the environments ReFrame runs with: the   *)
(* job of the CI pipeline pulls the images and builds CSCS_RFM_UENV        *)
(* (alps_uenv.yml, alps.sh), the loader checks each image and reads its    *)
(* metadata (uenv.py), cscs.py adds the environments to the partitions.    *)
(*                                                                         *)
(* The repository of images is shared: other jobs pull and remove images   *)
(* at any time, also between two steps of the loader.                      *)
(***************************************************************************)
EXTENDS SiteConfig, FiniteSets, SequencesExt

CONSTANTS
    Uenvs,      \* the identifiers of uenvs, labels and paths
    Paths,      \* those that are paths of squashfs files
    NoUenv,     \* the empty identifier
    Lists,      \* the lists uenv_image_find may print
    HandLists,  \* the values of CSCS_RFM_UENV set by hand
    Keys,       \* uenv -> the environments of its reframe.yaml, <<>> without it
    Broken,     \* uenvs of which an environment has no, or a bad, entry
    Pretty,     \* identifier -> the same with _ for : / % . @
    MaxChanges  \* bound on what other jobs do to the repository

ASSUME UenvAssumption ==
    /\ Paths \subseteq Uenvs /\ Broken \subseteq Uenvs /\ NoUenv \notin Uenvs
    /\ DOMAIN Keys = Uenvs /\ DOMAIN Pretty = Uenvs
    /\ \A u \in Uenvs : Keys[u] \in Seq({Keys[u][i] : i \in DOMAIN Keys[u]})
    /\ Lists \subseteq Seq(Uenvs) /\ HandLists \subseteq Seq(Uenvs \cup {NoUenv})
    /\ MaxChanges \in Nat

VARIABLES
    image,     \* uenv -> its squashfs file: "absent", "pulling" (empty) or "ready"
    changes,   \* number of changes by other jobs
    gone,      \* uenvs removed since the pipeline accepted them (history)
    pc,        \* what the job does next
    imgs,      \* the images still to pull
    uenva,     \* the identifiers accepted: CSCS_RFM_UENV
    byHand,    \* CSCS_RFM_UENV was set by hand
    turn,      \* the identifier the loader is at
    complete,  \* uenvs seen with a size (history)
    skipped,   \* uenvs whose metadata could not be read
    envs,      \* uenv_environments
    environs,  \* partition -> the names of its environments
    resources, \* partition -> how many times it has the resource uenv
    blame      \* the identifier the exception is about

repo == <<image, changes, gone>>
ci == <<imgs, uenva, byHand>>
loader == <<turn, complete, skipped, envs>>
site == <<environs, resources>>
vars == <<repo, ci, loader, site, pc, blame>>

-----------------------------------------------------------------------------
Init ==
    /\ image \in [Uenvs -> {"absent", "ready"}]
    /\ changes = 0 /\ gone = {}
    /\ \/ byHand = FALSE /\ pc = "pull" /\ imgs \in Lists /\ uenva = <<>>
       \/ byHand = TRUE /\ pc = "load" /\ imgs = <<>> /\ uenva \in HandLists
    /\ turn = 1 /\ complete = {} /\ skipped = {} /\ envs = <<>>
    /\ environs = BaseEnvirons
    /\ resources = [p \in Partitions |-> 0]
    /\ blame = NoUenv

-----------------------------------------------------------------------------
(* The other jobs: an image is pulled, in two steps, or removed. *)

Change(u, from, to) ==
    /\ image[u] = from /\ changes < MaxChanges
    /\ image' = [image EXCEPT ![u] = to]
    /\ changes' = changes + 1

OtherPulls(u) ==
    /\ Change(u, "absent", "pulling") \/ Change(u, "pulling", "ready")
    /\ UNCHANGED <<gone, ci, loader, site, pc, blame>>

OtherRemoves(u) ==
    /\ Change(u, "ready", "absent") \/ Change(u, "pulling", "absent")
    /\ gone' = IF u \in ToSet(uenva) THEN gone \cup {u} ELSE gone
    /\ UNCHANGED <<ci, loader, site, pc, blame>>

-----------------------------------------------------------------------------
(* The CI job: uenv_pull_meta_dir for each image, accepted when its output *)
(* says OK.                                                                *)

\* Mutated Says: .rc is accepted whatever it says.
SaysAnything(out) == TRUE

Says(out) == out = "OK"

\* "uenv image inspect" fails on an absent image, which is then pulled; the
\* OK of the image is printed before reframe.yaml is looked for.
PullMetaDir ==
    /\ pc = "pull" /\ imgs # <<>>
    /\ LET u == Head(imgs) IN
       \E out \in {"OK", "WARNING"} :
          /\ \/ image[u] # "absent" /\ out = "OK" /\ UNCHANGED image
             \/ image[u] = "absent" /\ out = "OK" /\ image' = [image EXCEPT ![u] = "ready"]
             \/ image[u] = "absent" /\ out = "WARNING" /\ UNCHANGED image
          /\ uenva' = IF Says(out) THEN Append(uenva, u) ELSE uenva
    /\ imgs' = Tail(imgs)
    /\ UNCHANGED <<changes, gone, byHand, loader, site, pc, blame>>

\* Without images, CSCS_RFM_UENV is exported as the empty string.
ExportUenv ==
    /\ pc = "pull" /\ imgs = <<>>
    /\ uenva' = IF uenva = <<>> THEN <<NoUenv>> ELSE uenva
    /\ pc' = "exported"
    /\ UNCHANGED <<repo, imgs, byHand, loader, site, blame>>

\* ReFrame is launched, in a cron job or with the tests of the pull request,
\* or there is nothing to run: a pull request without new or modified tests.
Launch ==
    /\ pc = "exported"
    /\ pc' \in {"load", "skipped"}
    /\ UNCHANGED <<repo, ci, loader, site, blame>>

-----------------------------------------------------------------------------
(* The loader, one step per look at the file system. *)

Current == uenva[turn]

\* Neither a file nor an image the CLI knows.
Missing(u) == u = NoUenv \/ image[u] = "absent"

ConfigError ==
    /\ pc' = "raised"
    /\ blame' = Current

Look(next) ==
    /\ IF Missing(Current) THEN ConfigError ELSE pc' = next /\ UNCHANGED blame
    /\ UNCHANGED <<repo, ci, loader, site>>

\* A path must be a file; of a label the CLI gives the path.
Identify ==
    /\ pc = "load" /\ turn <= Len(uenva)
    /\ Look(IF Current \in Paths THEN "meta" ELSE "file")

IsFile == pc = "file" /\ Look("stat")

\* Mutated Complete: the size is not looked at.
CompleteIfThere == ~Missing(Current)

Complete == ~Missing(Current) /\ image[Current] = "ready"

\* A file without a size, or removed meanwhile.
Stat ==
    /\ pc = "stat"
    /\ IF Complete
       THEN /\ complete' = IF image[Current] = "ready" THEN complete \cup {Current} ELSE complete
            /\ pc' = "meta"
            /\ UNCHANGED blame
       ELSE ConfigError /\ UNCHANGED complete
    /\ UNCHANGED <<repo, ci, turn, skipped, envs, site>>

\* The environments of one image, valid on every system.
Loaded(u) ==
    [i \in DOMAIN Keys[u] |-> Environment(<<Pretty[u], Keys[u][i]>>, u, Everywhere)]

Readable == ~Missing(Current) /\ Keys[Current] # <<>>

\* Mutated Skip: the other identifiers are left aside.
SkipRest == turn' = Len(uenva) + 1

Skip == turn' = turn + 1

ReadMeta ==
    /\ pc = "meta"
    /\ \/ /\ ~Readable
          /\ skipped' = skipped \cup {Current}
          /\ Skip
          /\ pc' = "load"
          /\ UNCHANGED <<envs, blame>>
       \/ /\ Readable /\ Current \notin Broken
          /\ envs' = envs \o Loaded(Current)
          /\ turn' = turn + 1
          /\ pc' = "load"
          /\ UNCHANGED <<skipped, blame>>
       \/ /\ Readable /\ Current \in Broken
          /\ ConfigError
          /\ UNCHANGED <<skipped, envs, turn>>
    /\ UNCHANGED <<repo, ci, complete, site>>

-----------------------------------------------------------------------------
(* cscs.py *)

MergeSite ==
    /\ pc = "load" /\ turn > Len(uenva)
    /\ environs' = [p \in Partitions |-> Environs(envs, p)]
    /\ resources' = [p \in Partitions |-> resources[p] + UenvResources(envs, p)]
    /\ pc' = "configured"
    /\ UNCHANGED <<repo, ci, loader, blame>>

Stopped == pc \in {"configured", "raised", "skipped"}

Others == \E u \in Uenvs : OtherPulls(u) \/ OtherRemoves(u)

Job ==
    \/ PullMetaDir \/ ExportUenv \/ Launch
    \/ Identify \/ IsFile \/ Stat \/ ReadMeta \/ MergeSite

Terminating == Stopped /\ UNCHANGED vars

Next == Others \/ Job \/ Terminating

Spec == Init /\ [][Next]_vars

-----------------------------------------------------------------------------
(* No environment is made of an image that has not been seen with a size,  *)
(* whatever other jobs do to the repository meanwhile (uenv.py:349-355).   *)
(* A path is taken as it is.                                               *)
EnvironmentsBacked ==
    \A i \in DOMAIN envs : envs[i].uenv \in complete \cup Paths

(* When the list is loaded, every identifier has left all of its           *)
(* environments on the partitions with the feature, after their own and in *)
(* the order of the list, but for those that were skipped: an image        *)
(* without metadata does not hide the next ones (uenv.py:366-374).  The    *)
(* other partitions keep what they had (cscs.py:83-86).                    *)
NothingHidden ==
    pc = "configured" => \A p \in Partitions :
        IF p \notin HasUenv THEN environs[p] = BaseEnvirons[p]
        ELSE /\ IsPrefix(BaseEnvirons[p], environs[p])
             /\ \A u \in ToSet(uenva) \ skipped :
                   {Pretty[u]} \X ToSet(Keys[u]) \subseteq ToSet(environs[p])
             /\ \A i, j \in DOMAIN envs : i < j =>
                   \E a, b \in DOMAIN uenva :
                       a <= b /\ uenva[a] = envs[i].uenv /\ uenva[b] = envs[j].uenv

(* An image the CI job has accepted makes the configuration fail only if   *)
(* another job has removed it since, is pulling it, or its metadata is     *)
(* broken; apart from them, only an empty list does (alps_uenv.yml:39-50,  *)
(* uenv.py:337-355).                                                       *)
AcceptedLoads ==
    pc = "raised" /\ ~byHand =>
        \/ blame = NoUenv /\ Len(uenva) = 1
        \/ blame \in gone \cup Broken
        \/ blame \in Uenvs /\ changes > 0 /\ image[blame] # "absent"
=============================================================================
