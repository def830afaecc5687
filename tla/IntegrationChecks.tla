--------------------------- MODULE IntegrationChecks ---------------------------
(***************************************************************************)
(* The system integration checks, checks/system/integration: a factory     *)
(* makes a test of a shell command and of what its output is expected to   *)
(* have, or not to have, on stdout or on stderr.  The machine the command  *)
(* runs on is external: what the command asks for is there or not, its     *)
(* tool works, is missing or hangs.                                        *)
(***************************************************************************)
EXTENDS Sequences, FiniteSets

-----------------------------------------------------------------------------
(* The factory *)

\* make_valid_systems: "where" counts only if no systems are named, and its
\* words are then what is compared with the name of the system.
make_valid_systems(valid_systems, where) ==
    IF valid_systems # {} THEN valid_systems
    ELSE IF where # {} THEN where ELSE {"*"}

\* What a check looks for and where; "" is in any text, "nothing" is no search.
Search(what, where) == [what |-> what, where |-> where]
NoSearch == Search("nothing", "stdout")

\* A check: its command, what it asks for and whether that should be there.
Check(names, command, expected, not_expected, wanted, valid_systems, where) ==
    {[name |-> n, command |-> command, expected |-> expected, not_expected |-> not_expected,
      wanted |-> wanted, valid_systems |-> make_valid_systems(valid_systems, where)] : n \in names}

\* cmd || echo FAILED, with FAILED not expected; or expected.
OrFailed(names, valid_systems) ==
    Check(names, "or FAILED", NoSearch, Search("FAILED", "stdout"), TRUE, valid_systems, {})
FailedExpected(names, valid_systems) ==
    Check(names, "or FAILED", Search("FAILED", "stdout"), NoSearch, FALSE, valid_systems, {})

\* The command shows what it finds: expected, or not.
Shows(names, valid_systems) ==
    Check(names, "show", Search("found", "stdout"), NoSearch, TRUE, valid_systems, {})
ShowsNot(names, valid_systems) ==
    Check(names, "show", NoSearch, Search("found", "stdout"), FALSE, valid_systems, {})

-----------------------------------------------------------------------------
(* The checks, by their class *)

DEC == {"daint", "eiger", "clariden"}
DC == {"daint", "clariden"}
DSC == {"daint", "santis", "clariden"}
DESC == DEC \cup {"santis"}

Killed == Search("sending signal", "stderr")

SLEEP ==
    Check({"timeout-completes"}, "timeout", Search("", "stderr"), NoSearch, TRUE, DESC, {})
      \cup Check({"timeout-signal-term"}, "late", Killed, NoSearch, TRUE, DESC, {})

FS ==
    Check({"df-command-timeout"}, "timeout", NoSearch, Killed, TRUE, DESC, {})
      \cup Check({"fs-no-full"}, "timeout", Search("", "stdout"), Killed, FALSE, DESC, {})
      \cup OrFailed({"ritom-mount-nosuid", "ritom-mount-remoteports",
                     "ritom-mount-optlockflush", "ritom-mount-noextend"}, DEC)
      \cup OrFailed({"ritom-mount-nconnect", "ritom-mount-loopupcache",
                     "ritom-mount-spread_reads", "ritom-mount-spread_writes"}, DC)

PING == Shows({"ping-localhost", "ping-remote-dns", "ping-remote-http"}, DESC)
PROXY == OrFailed({"curl-external-access"}, DESC)
DNS == FailedExpected({"dns-invalid-hostname"}, DESC)
    \cup OrFailed({"dns-internal-host", "dns-external-host"}, DESC)

NETIFACE ==
    Shows({"netiface-nmn0-up", "netiface-nmn0-ip", "netiface-hsn0-up", "netiface-hsn0-ip"}, DESC)
      \cup Shows({"netiface-hsn1-up", "netiface-hsn1-ip", "netiface-hsn2-up", "netiface-hsn2-ip",
                  "netiface-hsn3-up", "netiface-hsn3-ip", "slingshot-iommu-group"}, DSC)
      \cup Shows({"slingshot-iommu-group-eiger"}, {"eiger"})

\* The message of timeout is looked for on stdout; it is on stderr.
LDAP == Shows({"ldap-server-reachable"}, DESC)
    \cup Check({"ldap-getent-hosts"}, "partial", Search("found", "stdout"),
               Search("sending signal", "stdout"), TRUE, DESC, {})

OSINSTALL == Shows({"os-version-check", "locale-check"}, DESC)
OSSERVICE == OrFailed({"sshd-running", "ssh-port-listening"}, DESC)
    \cup FailedExpected({"http-port-not-listening"}, DESC)

TOOLS ==
    OrFailed({"tool-zypper", "tool-vim", "tool-gcc", "tool-gcc-12", "tool-jq"}, DESC)
      \cup OrFailed({"tool-emacs"}, {"eiger"})

MOUNTS ==
    OrFailed({"mount-users-eiger", "env-apps-eiger", "apps-path-check-eiger"}, {"eiger"})
      \cup OrFailed({"mount-scratch-capstor", "scratch-path-check-capstor"}, {"daint", "eiger", "santis"})
      \cup OrFailed({"mount-scratch-iopsstor", "scratch-path-check-iopsstor"}, {"clariden"})
      \cup OrFailed({"mount-store-capstor", "env-scratch", "env-project", "env-store", "env-home",
                     "project-path-check", "store-path-check", "home-path-check"}, DESC)
      \cup FailedExpected({"env-tmp-not-set"}, DESC)

\* The first has a feature, too: it is not looked at.
SLURM ==
    Check({"slurm-config-exists"}, "or FAILED", NoSearch, Search("FAILED", "stdout"), TRUE,
          DESC, {"+remote"})
      \cup OrFailed({"slurm-sinfo-tool"}, DESC)
      \cup Shows({"slurm-munge-daemon", "slurm-slurmctld-ping"}, DESC)

VSBASE == OrFailed({"vsbase-nomad"}, DESC)

VSERVICES ==
    OrFailed({"vservices-uenv-version"}, DESC)
      \cup Shows({"vservices-image-cp2k", "vservices-image-gromacs", "vservices-image-lammps",
                  "vservices-image-namd", "vservices-image-vasp"}, {"daint"})
      \cup Shows({"vservices-image-quantumespresso"}, {"daint", "santis"})
      \cup Shows({"vservices-image-linaro-forge", "vservices-image-pytorch", "vservices-image-editors",
                  "vservices-image-prgenv-gnu", "vservices-image-netcdf-tools"}, DSC)
      \cup ShowsNot({"vservices-image-icon-wcp-not-available"}, DC)
      \cup ShowsNot({"vservices-image-prgenv-nvidia-not-available"}, DSC)

Libraries == OrFailed({"libfabric-installed", "libfabric-1_22_0-installed", "libfabric-host-directory"}, DESC)
Workarounds == OrFailed({"workaround-cupointers"}, DESC)

create_checks ==
    UNION {SLEEP, FS, PING, PROXY, DNS, NETIFACE, LDAP, OSINSTALL, OSSERVICE, TOOLS,
           MOUNTS, SLURM, VSBASE, VSERVICES, Libraries, Workarounds}

-----------------------------------------------------------------------------
CONSTANTS
    Names,    \* the systems
    Selected  \* the checks that are run

VARIABLES
    check,   \* the check
    system,  \* the name of the system
    machine, \* what the command asks for, there or not, and how its tool is
    phase,   \* the next step of the test
    output,  \* what the command has written: <<text, stream>>
    verdict  \* how the test ended

checkVars == <<check, system, machine, phase, output, verdict>>

Idle == [name |-> "none"]

ChecksInit ==
    /\ check \in Selected
    /\ system \in Names
    /\ machine \in [there : BOOLEAN, tool : {"works", "missing", "hangs"}]
    /\ phase = "init"
    /\ output = {}
    /\ verdict = "none"

To(p, v) == phase' = p /\ verdict' = v /\ UNCHANGED <<check, system, machine>>

\* A run_after('init') hook: by the name of the system only.
check_system ==
    /\ phase = "init"
    /\ IF system \notin check.valid_systems THEN To("end", "skipped") ELSE To("setup", "none")
    /\ UNCHANGED output

\* A location but stdout and stderr is skipped.
set_command_options ==
    /\ phase = "setup"
    /\ IF {check.expected.where, check.not_expected.where} \subseteq {"stdout", "stderr"}
       THEN To("run", "none") ELSE To("end", "skipped")
    /\ UNCHANGED output

-----------------------------------------------------------------------------
(* What a command writes.  Under timeout one that hangs is killed, and says *)
(* so on stderr; otherwise the job is, when its time is over.               *)

UnderTimeout == {"timeout", "late", "partial"}

HasIt == machine.there /\ machine.tool = "works"

Writes ==
    CASE check.command = "or FAILED" -> IF HasIt THEN {} ELSE {<<"FAILED", "stdout">>}
      [] check.command = "show"      -> IF HasIt THEN {<<"found", "stdout">>} ELSE {}
      [] check.command = "timeout"   -> {<<"sending signal", "stderr">> : x \in {machine.tool} \cap {"hangs"}}
      [] check.command = "late"      -> {<<"sending signal", "stderr">> : x \in {machine.tool} \ {"missing"}}
      [] check.command = "partial"   ->
           {<<"found", "stdout">> : x \in {machine.tool} \ {"missing"}}
             \cup {<<"sending signal", "stderr">> : x \in {machine.tool} \cap {"hangs"}}

RunCommand ==
    /\ phase = "run"
    /\ IF machine.tool = "hangs" /\ check.command \notin UnderTimeout
       THEN output' = {} /\ To("end", "fail")
       ELSE output' = Writes /\ To("sanity", "none")

Found(search) == search.what = "" \/ <<search.what, search.where>> \in output

\* A mutated Validated: one of the two is enough.
ValidatedEither ==
    \/ check.expected.what # "nothing" => Found(check.expected)
    \/ check.not_expected.what # "nothing" => ~Found(check.not_expected)

Validated ==
    /\ check.expected.what # "nothing" => Found(check.expected)
    /\ check.not_expected.what # "nothing" => ~Found(check.not_expected)

validate ==
    /\ phase = "sanity"
    /\ To("end", IF Validated THEN "pass" ELSE "fail")
    /\ UNCHANGED output

ChecksOver == phase = "end" /\ UNCHANGED checkVars

ChecksNext ==
    \/ check_system \/ set_command_options \/ RunCommand \/ validate
    \/ ChecksOver

-----------------------------------------------------------------------------
\* What the description of the check says: that something is there, or not,
\* and in time.
AsDescribed ==
    CASE check.command = "timeout" /\ check.wanted -> machine.tool # "hangs"
      [] check.command = "late" -> machine.tool # "missing"
      [] check.command = "partial" -> machine.tool = "works"
      [] OTHER -> (machine.there = check.wanted) /\ machine.tool # "hangs"

\* Checks that cannot see what they describe: an empty pattern is in any
\* output, and the message of timeout is not on stdout.
Blind == {"timeout-completes", "fs-no-full", "ldap-getent-hosts"}

\* A check of the system that passes means what its description says, but for
\* the blind ones, and but for those that something is not there, where the
\* tool that would show it is missing (utils.py:155, alps.py:22).
FaultFound ==
    (verdict = "pass" /\ check.name \notin Blind) =>
        AsDescribed \/ (~check.wanted /\ machine.tool = "missing")
=============================================================================
