------------------------------ MODULE Releases -------------------------------
(***************************************************************************)
(* install.sh: releases in directories of their own, one symbolic link to  *)
(* the one in use, and the commands install, upgrade, rollback and         *)
(* uninstall.  Each command is a sequence of steps under `set -e`; it may  *)
(* fail, be interrupted, or be cut short by a reboot between any two.      *)
(*                                                                         *)
(* Releases are numbered in the order of their time stamps, which is the   *)
(* order `sort` gives their directories.                                   *)
(***************************************************************************)
EXTENDS Integers, FiniteSets, Sequences

CONSTANTS
    KEEP_RELEASES,  \* directories prune_releases keeps (3)
    KeepBackups,    \* database snapshots backup_db keeps (7)
    Sources,        \* commits that may be checked out
    SchemaOf,       \* commit -> its newest migration
    MaxReleases,    \* bound: release directories ever made
    MaxInterrupts   \* bound: interruptions and reboots

ASSUME ReleasesAssumption ==
    /\ {KEEP_RELEASES, KeepBackups} \subseteq Nat \ {0} /\ {MaxReleases, MaxInterrupts} \subseteq Nat
    /\ SchemaOf \in [Sources -> Nat \ {0}]

VARIABLES
    made,         \* number of release directories made so far
    source,       \* release -> commit, as its RELEASE file says
    dirs,         \* release directories on disk
    built,        \* those whose virtual environment is complete
    current,      \* where the link points
    loop,         \* the release vpn-pulse-run runs
    api,          \* the release vpn-pulse-api runs
    schema,       \* newest migration of the database, 0 when there is none
    backups,      \* schemas of the snapshots, oldest first; Partial when cut short
    pc,           \* next step of the command
    cmd,          \* the command
    new,          \* NEW_RELEASE
    previous,     \* the release the command started from, or goes back to
    rejected,     \* observer: the doctor of this upgrade reported failures
    down,         \* observer: a unit did not become active at its last start
    interrupts

disk     == <<made, source, dirs, built>>
services == <<loop, api>>
script   == <<cmd, new, previous>>
vars     == <<disk, current, services, schema, backups, pc, script, rejected, down, interrupts>>

None    == 0
Partial == 0
Units   == {"loop", "api"}

Larger(a, b) == IF a > b THEN a ELSE b

\* Opening the database with a release's code applies its migrations.
Migrated(r) == Larger(schema, SchemaOf[source[r]])

\* Whoever starts the current release may open the database, or fail before that.
Opened == {schema} \cup {Migrated(r) : r \in {current} \cap built}

-----------------------------------------------------------------------------
(* Building a release *)

\* install_release, up to the virtual environment.
NewDirectory(src) ==
    /\ made < MaxReleases
    /\ made' = made + 1 /\ new' = made'
    /\ source' = [r \in 1..made' |-> IF r = made' THEN src ELSE source[r]]
    /\ dirs' = dirs \cup {made'}
    /\ pc' = "build"
    /\ UNCHANGED built

\* The current release is from this commit already.
UpToDate(src) == current # None /\ source[current] = src

\* upgrade; when it is up to date already it says so and does nothing.
Upgrade(src) ==
    /\ pc = "idle" /\ current # None /\ ~UpToDate(src)
    /\ NewDirectory(src)
    /\ cmd' = "upgrade" /\ previous' = current /\ rejected' = FALSE
    /\ UNCHANGED <<current, services, schema, backups, down, interrupts>>

\* install, from nothing or over an installation.
Install(src) ==
    /\ pc = "idle"
    /\ cmd' = "install" /\ previous' = current
    /\ \/ ~UpToDate(src) /\ NewDirectory(src)
       \/ UpToDate(src) /\ new' = current /\ pc' = "switch" /\ UNCHANGED disk
    /\ UNCHANGED <<current, services, schema, backups, rejected, down, interrupts>>

\* pip may fail: the directory stays, without its environment.
Build ==
    /\ pc = "build"
    /\ \/ built' = built \cup {new} /\ pc' = IF cmd = "upgrade" THEN "backup" ELSE "switch"
       \/ pc' = "idle" /\ UNCHANGED built
    /\ UNCHANGED <<made, source, dirs, current, services, schema, backups, script, rejected,
                   down, interrupts>>

-----------------------------------------------------------------------------
(* The rest of upgrade *)

\* Mutant: the oldest snapshots are kept instead of the newest.
OldestKept(rows, n) == SubSeq(rows, 1, IF Len(rows) > n THEN n ELSE Len(rows))

Newest(rows, n) == SubSeq(rows, IF Len(rows) > n THEN Len(rows) - n + 1 ELSE 1, Len(rows))

\* A snapshot cut short leaves a file that counts among the snapshots.
CutShort ==
    {backups} \cup {Append(backups, p) : p \in IF pc = "backup" /\ schema > 0 THEN {Partial} ELSE {}}

\* backup_db, or its failure, which ends the script.
Backup ==
    /\ pc = "backup"
    /\ \/ /\ backups' = IF schema = 0 THEN backups ELSE Newest(Append(backups, schema), KeepBackups)
          /\ pc' = "stop"
       \/ backups' \in CutShort /\ pc' = "idle"
    /\ UNCHANGED <<disk, current, services, schema, script, rejected, down, interrupts>>

StopLoop ==
    /\ pc = "stop" /\ pc' = "migrate" /\ loop' = None
    /\ UNCHANGED <<disk, current, api, schema, backups, script, rejected, down, interrupts>>

\* `doctor storage` with the new code; findings are only a warning.
Migrate ==
    /\ pc = "migrate" /\ pc' = "switch"
    /\ schema' \in {schema, Migrated(new)}
    /\ UNCHANGED <<disk, current, services, backups, script, rejected, down, interrupts>>

-----------------------------------------------------------------------------
(* Steps the commands share *)

\* switch_release replaces the link atomically.
Switch ==
    /\ pc \in {"switch", "switch back"}
    /\ current' = IF pc = "switch" /\ cmd # "rollback" THEN new ELSE previous
    /\ pc' = IF pc = "switch" THEN "restart" ELSE "restart back"
    /\ UNCHANGED <<disk, services, schema, backups, script, rejected, down, interrupts>>

\* What a started unit runs: nothing when the release has no environment.
Runnable == IF current \in built THEN current ELSE None

\* Mutant: services are started, never restarted.
NeverRestarted(u) == IF u = None THEN Runnable ELSE u

\* RESTART_SERVICES: only an install that changed nothing leaves what runs alone.
Restarted(u) == IF cmd = "install" /\ previous \in {None, new} /\ u # None THEN u ELSE Runnable

\* configure (which creates the database of a first installation) and services; a
\* unit may fail to become active, which `services || true` passes over.
Restart(failed) ==
    /\ pc \in {"restart", "restart back"}
    /\ loop' = (IF "loop" \in failed THEN None ELSE Restarted(loop))
    /\ api' = (IF "api" \in failed THEN None ELSE Restarted(api))
    /\ down' = (failed # {})
    /\ schema' \in IF failed = Units \/ current \notin built THEN Opened ELSE {Migrated(current)}
    /\ pc' = IF pc = "restart" THEN "doctor" ELSE "idle"
    /\ UNCHANGED <<disk, current, backups, script, rejected, interrupts>>

\* doctor: 0 OK, 1 warnings, 2 failures, on which an upgrade goes back.
Doctor(rc) ==
    /\ pc = "doctor"
    /\ schema' \in Opened
    /\ rejected' = (cmd = "upgrade" /\ rc = 2)
    /\ pc' = IF rejected' THEN "switch back" ELSE IF cmd = "rollback" THEN "idle" ELSE "prune"
    /\ UNCHANGED <<disk, current, services, backups, script, down, interrupts>>

\* The last n of a set of releases.
LastReleases(n) == {r \in dirs : Cardinality({q \in dirs : q > r}) < n}

\* Mutant: the release in use is not looked at.
PruneOldest ==
    /\ pc = "prune" /\ pc' = "idle"
    /\ dirs' = LastReleases(KEEP_RELEASES) /\ built' = built \cap dirs'
    /\ UNCHANGED <<made, source, current, services, schema, backups, script, rejected,
                   down, interrupts>>

PruneReleases ==
    /\ pc = "prune" /\ pc' = "idle"
    /\ dirs' = LastReleases(KEEP_RELEASES) \cup {current} /\ built' = built \cap dirs'
    /\ UNCHANGED <<made, source, current, services, schema, backups, script, rejected,
                   down, interrupts>>

-----------------------------------------------------------------------------
(* The other commands *)

\* rollback goes to the newest directory that is not the current one.
Rollback ==
    /\ pc = "idle" /\ current # None
    /\ \E r \in dirs \ {current} : /\ \A q \in dirs \ {current} : q <= r
                                   /\ previous' = r
    /\ cmd' = "rollback" /\ pc' = "switch"
    /\ UNCHANGED <<disk, current, services, schema, backups, new, rejected, down, interrupts>>

\* uninstall; --purge removes the database and its snapshots too.
Uninstall(purge) ==
    /\ pc = "idle" /\ current # None
    /\ dirs' = {} /\ built' = {} /\ current' = None /\ loop' = None /\ api' = None
    /\ schema' = IF purge THEN 0 ELSE schema
    /\ backups' = IF purge THEN <<>> ELSE backups
    /\ UNCHANGED <<made, source, pc, script, rejected, down, interrupts>>

\* The script is killed: its terminal is closed, or a step fails under `set -e`.
Interrupt ==
    /\ pc # "idle" /\ interrupts < MaxInterrupts
    /\ interrupts' = interrupts + 1 /\ pc' = "idle" /\ backups' \in CutShort
    /\ UNCHANGED <<disk, current, services, schema, script, rejected, down>>

\* The machine restarts: systemd starts the enabled units from the link, and a
\* unit may fail.
Reboot ==
    /\ current # None /\ interrupts < MaxInterrupts
    /\ interrupts' = interrupts + 1 /\ pc' = "idle" /\ backups' \in CutShort
    /\ loop' \in {Runnable, None} /\ api' \in {Runnable, None}
    /\ schema' \in Opened
    /\ UNCHANGED <<disk, current, script, rejected, down>>

Init ==
    /\ made = 0 /\ source = [r \in {} |-> r] /\ dirs = {} /\ built = {} /\ current = None
    /\ loop = None /\ api = None /\ schema = 0 /\ backups = <<>> /\ pc = "idle" /\ cmd = "none"
    /\ new = None /\ previous = None /\ rejected = FALSE /\ down = FALSE /\ interrupts = 0

Next ==
    \/ \E src \in Sources : Upgrade(src) \/ Install(src)
    \/ Build \/ Backup \/ StopLoop \/ Migrate \/ Switch \/ PruneReleases \/ Rollback
    \/ \E failed \in SUBSET Units : Restart(failed)
    \/ \E rc \in 0..2 : Doctor(rc)
    \/ \E purge \in BOOLEAN : Uninstall(purge)
    \/ Interrupt \/ Reboot

Spec == Init /\ [][Next]_vars

-----------------------------------------------------------------------------
(* Properties *)

\* The link always points at a release that is on disk: neither the pruning of
\* releases nor an interrupted command takes it away, in whatever order releases
\* were built, rejected and rolled back.
CurrentIsInstalled == current # None => current \in dirs

\* upgrade-rollback.md: "`current` points at the one that runs", and after a failing
\* doctor "the previous release is switched back and restarted": when a command has
\* ended, with success, with a failure or by going back, no service runs another
\* release than the one the link names, both run it if it is complete and every unit
\* became active, and that is not the one the doctor rejected.
RunsTheCurrent ==
    pc = "idle" /\ interrupts = 0 =>
        /\ loop \in {current, None} /\ api \in {current, None}
        /\ current \in built /\ ~down => loop = current /\ api = current
        /\ cmd = "upgrade" /\ rejected => current # new

\* upgrade-rollback.md: "restore the backup made by the upgrade": before the code an
\* upgrade brings in migrates a database, a snapshot with the old schema exists,
\* also when an interrupted upgrade is finished by a reboot.
MigrationIsBackedUp ==
    [][/\ schema' > schema /\ schema > 0
       /\ cmd = "upgrade" /\ (current = new \/ pc = "migrate")
       => \E i \in 1..Len(backups) : backups[i] = schema]_vars

\* install.sh: an upgrade ends with "previous ... kept for rollback".
\* (No run checks it: after two failed upgrades it fails, see the README.)
PreviousIsKept == [][pc = "prune" /\ cmd = "upgrade" => previous \in dirs']_vars
=============================================================================
