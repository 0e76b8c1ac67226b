--------------------------- MODULE ReleasesProofs ----------------------------
(***************************************************************************)
(* What install.sh keeps true, for any number of releases, any limits and  *)
(* any interruptions.                                                      *)
(***************************************************************************)
EXTENDS Releases, TLAPS

ReleasesTypeOK ==
    /\ made \in Nat /\ source \in [1..made -> Sources] /\ dirs \subseteq 1..made /\ built \subseteq dirs
    /\ current \in dirs \cup {None} /\ loop \in Nat /\ api \in Nat /\ schema \in Nat /\ backups \in Seq(Nat)
    /\ pc \in {"idle", "build", "backup", "stop", "migrate", "switch", "restart", "doctor", "prune",
               "switch back", "restart back"}
    /\ cmd \in {"none", "install", "upgrade", "rollback"}
    /\ new \in 0..made /\ previous \in 0..made /\ rejected \in BOOLEAN
    /\ down \in BOOLEAN /\ interrupts \in Nat

Making == {"build", "backup", "stop", "migrate"}

\* What a command knows of its releases: those it may switch to are on disk.
ScriptInv ==
    /\ pc \in Making => cmd \in {"upgrade", "install"} /\ new \in dirs /\ new # current /\ previous = current
    /\ pc \in {"backup", "stop", "migrate", "switch back", "restart back"} => cmd = "upgrade"
    /\ pc = "switch" => /\ cmd \in {"upgrade", "install", "rollback"}
                        /\ IF cmd = "rollback" THEN previous \in dirs ELSE new \in dirs
    /\ pc # "idle" /\ cmd = "upgrade" => new \in dirs /\ previous \in dirs /\ previous # new
    /\ cmd = "upgrade" => new # None
    /\ pc \in {"restart", "doctor", "prune", "switch back", "restart back"} => current # None

\* No service runs another release than the link names, and both run it unless a
\* start failed.
OnCurrent ==
    /\ loop \in {current, None} /\ api \in {current, None}
    /\ current \in built /\ ~down => loop = current /\ api = current

\* What runs, as long as nothing was interrupted.
RunInv ==
    interrupts = 0 =>
        /\ pc \in {"idle", "build", "backup", "stop", "doctor", "prune"} => OnCurrent
        /\ current = None => loop = None /\ api = None
        /\ pc \in {"switch", "restart"} /\ cmd = "install" =>
             /\ previous = None => loop = None /\ api = None
             /\ previous = new => current = new /\ OnCurrent
        /\ cmd = "upgrade" /\ rejected =>
             /\ pc \in {"idle", "switch back", "restart back"}
             /\ pc \in {"idle", "restart back"} => current # new

\* A snapshot of the database at this schema exists.
Snapshot(s) == \E i \in 1..Len(backups) : backups[i] = s

\* From the snapshot on, and for as long as the upgrade's release is in use, either
\* the database is as the snapshot has it or nothing is left to migrate.
BackupInv ==
    cmd = "upgrade" =>
        /\ pc \in {"stop", "migrate"} => schema = 0 \/ Snapshot(schema)
        /\ pc = "switch" \/ current = new => schema = 0 \/ schema >= SchemaOf[source[new]] \/ Snapshot(schema)

ReleasesInv == ReleasesTypeOK /\ ScriptInv /\ RunInv /\ BackupInv

-----------------------------------------------------------------------------

\* What the assumption says, in the form the provers use.
LEMMA ReleasesConstants ==
    /\ KEEP_RELEASES \in Nat \ {0} /\ KeepBackups \in Nat \ {0} /\ MaxReleases \in Nat /\ MaxInterrupts \in Nat
    /\ SchemaOf \in [Sources -> Nat \ {0}]
  BY ReleasesAssumption

\* The invariant holds at first.
LEMMA InitReleases == Init => ReleasesInv
<1> SUFFICES ASSUME Init PROVE ReleasesInv
  OBVIOUS
<1>1. ReleasesTypeOK
  <2>1. source \in [1..made -> Sources]
    BY DEF Init
  <2>2. backups \in Seq(Nat)
    BY DEF Init
  <2>3. dirs \subseteq 1..made /\ built \subseteq dirs /\ new \in 0..made /\ previous \in 0..made
    BY DEF Init, None
  <2> QED BY <2>1, <2>2, <2>3 DEF Init, ReleasesTypeOK, None
<1>2. ScriptInv /\ RunInv /\ BackupInv
  BY DEF Init, ScriptInv, Making, RunInv, OnCurrent, BackupInv, None
<1> QED BY <1>1, <1>2 DEF ReleasesInv

\* The newest of the kept snapshots is the one just made.
LEMMA NewestHasLast ==
  ASSUME NEW rows \in Seq(Nat), NEW s \in Nat, NEW n \in Nat \ {0}
  PROVE  /\ Newest(Append(rows, s), n) \in Seq(Nat)
         /\ \E i \in 1..Len(Newest(Append(rows, s), n)) : Newest(Append(rows, s), n)[i] = s
<1> DEFINE all   == Append(rows, s)
           first == IF Len(all) > n THEN Len(all) - n + 1 ELSE 1
           kept  == SubSeq(all, first, Len(all))
<1>1. all \in Seq(Nat) /\ Len(all) = Len(rows) + 1 /\ Len(rows) \in Nat /\ all[Len(all)] = s
  OBVIOUS
<1>2. first \in 1..Len(all)
  BY <1>1
<1> HIDE DEF all, first
<1>3. kept \in Seq(Nat) /\ Len(kept) = Len(all) - first + 1
  BY <1>1, <1>2
<1>4. Len(kept) \in 1..Len(kept) /\ kept[Len(kept)] = all[Len(all)]
  BY <1>1, <1>2, <1>3
<1> QED BY <1>1, <1>3, <1>4 DEF Newest, all, first

\* A missing link is not a release.
LEMMA NoneIsNoRelease == ReleasesTypeOK => None \notin dirs
<1> SUFFICES ASSUME ReleasesTypeOK PROVE None \notin dirs
  OBVIOUS
<1>1. dirs \subseteq 1..made /\ made \in Nat
  BY DEF ReleasesTypeOK
<1> QED BY <1>1 DEF None

\* Opening the database with a release's code never takes its schema back.
LEMMA MigratedBounds ==
  ASSUME ReleasesTypeOK, NEW r \in dirs
  PROVE  Migrated(r) \in Nat /\ Migrated(r) >= schema /\ Migrated(r) >= SchemaOf[source[r]]
<1>1. r \in 1..made /\ source[r] \in Sources /\ schema \in Nat
  BY DEF ReleasesTypeOK
<1>2. SchemaOf[source[r]] \in Nat
  BY <1>1, ReleasesConstants
<1> QED BY <1>1, <1>2 DEF Migrated, Larger

\* Whoever opens the database leaves it alone or with nothing of the current release
\* to migrate.
LEMMA OpenedBounds ==
  ASSUME ReleasesTypeOK, NEW s \in Opened
  PROVE  s \in Nat /\ (s = schema \/ s >= SchemaOf[source[current]])
<1>1. CASE s = schema
  BY <1>1 DEF ReleasesTypeOK
<1>2. CASE current \in built /\ s = Migrated(current)
  <2>1. current \in dirs
    BY <1>2 DEF ReleasesTypeOK
  <2> QED BY <1>2, <2>1, MigratedBounds
<1> QED BY <1>1, <1>2 DEF Opened

\* A snapshot cut short takes none of the whole ones away.
LEMMA CutShortKeeps ==
  ASSUME ReleasesTypeOK, NEW rows \in CutShort
  PROVE  /\ rows \in Seq(Nat)
         /\ \A s : (\E i \in 1..Len(backups) : backups[i] = s) => \E i \in 1..Len(rows) : rows[i] = s
<1>1. backups \in Seq(Nat)
  BY DEF ReleasesTypeOK
<1>2. rows = backups \/ rows = Append(backups, Partial)
  BY DEF CutShort
<1>3. CASE rows = Append(backups, Partial)
  <2>1. rows \in Seq(Nat) /\ Len(rows) = Len(backups) + 1 /\ Len(backups) \in Nat
    BY <1>1, <1>3 DEF Partial
  <2>2. \A i \in 1..Len(backups) : i \in 1..Len(rows) /\ rows[i] = backups[i]
    BY <1>1, <1>3, <2>1
  <2> QED BY <2>1, <2>2
<1> QED BY <1>1, <1>2, <1>3

-----------------------------------------------------------------------------
(* One lemma per action *)

\* A new directory has a new name, the largest.
LEMMA NewDirectoryEffect ==
  ASSUME ReleasesInv, NEW src \in Sources, NewDirectory(src)
  PROVE  /\ made' \in Nat /\ source' \in [1..made' -> Sources] /\ dirs' \subseteq 1..made' /\ built' \subseteq dirs'
         /\ current \in dirs' \cup {None} /\ new' \in dirs' /\ new' # current /\ new' \in 0..made' /\ new' # None
         /\ previous \in 0..made' /\ current \in 0..made' /\ dirs \subseteq dirs' /\ pc' = "build" /\ built' = built
<1>1. /\ made \in Nat /\ source \in [1..made -> Sources] /\ dirs \subseteq 1..made /\ built \subseteq dirs
      /\ current \in dirs \cup {None} /\ previous \in 0..made
  BY DEF ReleasesInv, ReleasesTypeOK
<1>2. /\ made' = made + 1 /\ new' = made' /\ dirs' = dirs \cup {made'} /\ built' = built /\ pc' = "build"
      /\ source' = [r \in 1..made' |-> IF r = made' THEN src ELSE source[r]]
  BY DEF NewDirectory
<1>3. source' \in [1..made' -> Sources]
  BY <1>1, <1>2
<1>4. /\ made' \in Nat /\ dirs' \subseteq 1..made' /\ previous \in 0..made' /\ current \in 0..made'
      /\ new' # current /\ new' \in 0..made' /\ new' # None
  BY <1>1, <1>2 DEF None
<1> QED BY <1>1, <1>2, <1>3, <1>4

\* upgrade starts with a new directory, or says that nothing is new.
LEMMA UpgradeKeeps == ASSUME ReleasesInv, NEW src \in Sources, Upgrade(src) PROVE ReleasesInv'
<1> USE DEF Upgrade, services
<1>1. ReleasesTypeOK'
  BY NewDirectoryEffect DEF ReleasesInv, ReleasesTypeOK
<1>2. ScriptInv'
  BY NewDirectoryEffect DEF ReleasesInv, ReleasesTypeOK, ScriptInv, Making, None
<1>3. RunInv'
  BY NewDirectoryEffect DEF ReleasesInv, RunInv, OnCurrent
<1>4. BackupInv'
  BY NewDirectoryEffect DEF ReleasesInv, BackupInv
<1> QED BY <1>1, <1>2, <1>3, <1>4 DEF ReleasesInv

\* install starts.
LEMMA InstallKeeps == ASSUME ReleasesInv, NEW src \in Sources, Install(src) PROVE ReleasesInv'
<1> USE DEF Install, services
<1>1. CASE NewDirectory(src)
  <2>1. ReleasesTypeOK'
    BY <1>1, NewDirectoryEffect DEF ReleasesInv, ReleasesTypeOK
  <2>2. ScriptInv'
    BY <1>1, NewDirectoryEffect DEF ReleasesInv, ReleasesTypeOK, ScriptInv, Making, None
  <2>3. RunInv'
    BY <1>1, NewDirectoryEffect DEF ReleasesInv, RunInv, OnCurrent
  <2>4. BackupInv'
    BY <1>1 DEF BackupInv
  <2> QED BY <2>1, <2>2, <2>3, <2>4 DEF ReleasesInv
<1>2. CASE UpToDate(src) /\ new' = current /\ pc' = "switch" /\ UNCHANGED disk
  <2> USE <1>2 DEF disk, UpToDate
  <2>1. ReleasesTypeOK'
    BY DEF ReleasesInv, ReleasesTypeOK, None
  <2>2. ScriptInv'
    BY DEF ReleasesInv, ReleasesTypeOK, ScriptInv, Making, None
  <2>3. RunInv'
    BY DEF ReleasesInv, ReleasesTypeOK, RunInv, OnCurrent, None
  <2>4. BackupInv'
    BY DEF BackupInv
  <2> QED BY <2>1, <2>2, <2>3, <2>4 DEF ReleasesInv
<1> QED BY <1>1, <1>2

\* The build succeeds or fails.
LEMMA BuildKeeps == ReleasesInv /\ Build => ReleasesInv'
<1> SUFFICES ASSUME ReleasesInv, Build PROVE ReleasesInv'
  OBVIOUS
<1> USE DEF ReleasesInv, Build, services, script
<1>1. ReleasesTypeOK'
  BY DEF ReleasesTypeOK, ScriptInv, Making
<1>2. ScriptInv'
  BY DEF ReleasesTypeOK, ScriptInv, Making
<1>3. RunInv'
  BY DEF ReleasesTypeOK, ScriptInv, RunInv, OnCurrent, Making
<1>4. BackupInv'
  BY DEF ScriptInv, BackupInv, Snapshot, Making
<1> QED BY <1>1, <1>2, <1>3, <1>4

\* The backup before the migration succeeds and prunes older ones, or fails.
LEMMA BackupKeeps == ReleasesInv /\ Backup => ReleasesInv'
<1> SUFFICES ASSUME ReleasesInv, Backup PROVE ReleasesInv'
  OBVIOUS
<1> USE DEF ReleasesInv, Backup, services, script, disk
<1>1. ReleasesTypeOK' /\ (pc' = "stop" => schema = 0 \/ Snapshot(schema)')
  <2>1. schema \in Nat /\ backups \in Seq(Nat)
    BY DEF ReleasesTypeOK
  <2>2. /\ backups' \in Seq(Nat)
        /\ pc' = "stop" => schema = 0 \/ \E i \in 1..Len(backups') : backups'[i] = schema
    <3>1. /\ Newest(Append(backups, schema), KeepBackups) \in Seq(Nat)
          /\ \E i \in 1..Len(Newest(Append(backups, schema), KeepBackups)) :
               Newest(Append(backups, schema), KeepBackups)[i] = schema
      BY <2>1, NewestHasLast, ReleasesConstants
    <3>2. CASE backups' \in CutShort /\ pc' = "idle"
      BY <3>2, CutShortKeeps
    <3>3. CASE /\ backups' = IF schema = 0 THEN backups ELSE Newest(Append(backups, schema), KeepBackups)
               /\ pc' = "stop"
      BY <2>1, <3>1, <3>3
    <3> QED BY <3>2, <3>3
  <2> QED BY <2>2 DEF ReleasesTypeOK, Snapshot
<1>2. ScriptInv'
  BY DEF ScriptInv, Making
<1>3. RunInv'
  BY DEF ScriptInv, RunInv, OnCurrent, Making
<1>4. BackupInv'
  BY <1>1 DEF ScriptInv, BackupInv, Making
<1> QED BY <1>1, <1>2, <1>3, <1>4

\* The loop is stopped.
LEMMA StopKeeps == ReleasesInv /\ StopLoop => ReleasesInv'
<1> SUFFICES ASSUME ReleasesInv, StopLoop PROVE ReleasesInv'
  OBVIOUS
<1> USE DEF ReleasesInv, StopLoop, script, disk
<1>1. ReleasesTypeOK'
  BY DEF ReleasesTypeOK, None
<1>2. ScriptInv' /\ RunInv'
  BY DEF ScriptInv, RunInv, OnCurrent, Making
<1>3. BackupInv'
  BY DEF ScriptInv, BackupInv, Snapshot, Making
<1> QED BY <1>1, <1>2, <1>3

\* The new code migrates the database.
LEMMA MigrateKeeps == ReleasesInv /\ Migrate => ReleasesInv'
<1> SUFFICES ASSUME ReleasesInv, Migrate PROVE ReleasesInv'
  OBVIOUS
<1> USE DEF ReleasesInv, Migrate, services, script, disk
<1>1. new \in dirs /\ new # current /\ cmd = "upgrade"
  BY DEF ScriptInv, Making
<1>2. schema' \in Nat /\ (schema' = schema \/ schema' >= SchemaOf[source[new]])
  BY <1>1, MigratedBounds DEF ReleasesTypeOK
<1>3. ReleasesTypeOK'
  BY <1>2 DEF ReleasesTypeOK
<1>4. ScriptInv' /\ RunInv'
  BY <1>1 DEF ScriptInv, RunInv, OnCurrent, Making
<1>5. BackupInv'
  BY <1>1, <1>2 DEF BackupInv, Snapshot
<1> QED BY <1>3, <1>4, <1>5

\* The link is switched.
LEMMA SwitchKeeps == ReleasesInv /\ Switch => ReleasesInv'
<1> SUFFICES ASSUME ReleasesInv, Switch PROVE ReleasesInv'
  OBVIOUS
<1> USE DEF ReleasesInv, Switch, services, script, disk
<1>1. current' \in dirs /\ current' # None
  <2>1. current' \in dirs
    BY DEF ScriptInv
  <2> QED BY <2>1, NoneIsNoRelease
<1>2. ReleasesTypeOK'
  BY <1>1 DEF ReleasesTypeOK
<1>3. ScriptInv'
  BY <1>1 DEF ReleasesTypeOK, ScriptInv, Making
<1>4. RunInv'
  BY <1>1 DEF ScriptInv, RunInv, OnCurrent
<1>5. BackupInv'
  BY <1>1 DEF ReleasesTypeOK, ScriptInv, BackupInv, Snapshot
<1> QED BY <1>2, <1>3, <1>4, <1>5

\* What a started unit runs is the current release or nothing.
LEMMA RunnableIs ==
  ASSUME ReleasesTypeOK
  PROVE  Runnable \in Nat /\ Runnable \in {current, None} /\ (current \in built => Runnable = current)
<1>1. dirs \subseteq 1..made /\ made \in Nat /\ built \subseteq dirs
  BY DEF ReleasesTypeOK
<1>2. current \in built => current \in Nat
  BY <1>1
<1>3. None \in Nat
  BY DEF None
<1> QED BY <1>2, <1>3 DEF Runnable

\* The services are restarted from the link.
LEMMA RestartKeeps == ASSUME ReleasesInv, NEW failed \in SUBSET Units, Restart(failed) PROVE ReleasesInv'
<1> USE DEF Restart, script, disk
<1>1. ReleasesTypeOK /\ current # None /\ (pc = "restart back" => cmd = "upgrade")
  BY DEF ReleasesInv, ScriptInv
<1>2. schema' \in Nat /\ (schema' = schema \/ schema' >= SchemaOf[source[current]])
  <2>1. schema' \in Opened
    BY DEF Opened
  <2> QED BY <1>1, <2>1, OpenedBounds
<1>3. /\ Runnable \in Nat /\ Runnable \in {current, None} /\ (current \in built => Runnable = current)
      /\ loop' \in {loop, Runnable, None} /\ api' \in {api, Runnable, None}
  BY <1>1, RunnableIs DEF Restarted
<1>4. ReleasesTypeOK'
  <2>1. down' \in BOOLEAN
    OBVIOUS
  <2> HIDE DEF Restart
  <2>2. loop' \in Nat /\ api' \in Nat
    <3>1. loop \in Nat /\ api \in Nat /\ None \in Nat
      BY <1>1 DEF ReleasesTypeOK, None
    <3> QED BY <1>3, <3>1
  <2>3. pc' \in {"doctor", "idle"} /\ UNCHANGED <<made, source, dirs, built, current, backups, cmd, new, previous,
                                                 rejected, interrupts>>
    BY DEF Restart
  <2> QED BY <1>1, <1>2, <2>1, <2>2, <2>3 DEF ReleasesTypeOK
<1>5. ScriptInv'
  BY <1>1 DEF ReleasesInv, ScriptInv, Making
<1>6. RunInv'
  <2>1. ASSUME interrupts = 0 PROVE OnCurrent'
    <3>1. Restarted(loop) \in {current, None} /\ Restarted(api) \in {current, None}
      BY <1>1, <1>3, <2>1 DEF ReleasesInv, RunInv, OnCurrent, Restarted
    <3>2. current \in built => Restarted(loop) = current /\ Restarted(api) = current
      BY <1>1, <1>3, <2>1 DEF ReleasesInv, RunInv, OnCurrent, Restarted
    <3>3. ~down' => failed = {}
      OBVIOUS
    <3> QED BY <3>1, <3>2, <3>3 DEF OnCurrent
  <2> QED BY <1>1, <2>1 DEF ReleasesInv, RunInv
<1>7. BackupInv'
  BY <1>1, <1>2 DEF ReleasesInv, BackupInv, Snapshot
<1> QED BY <1>4, <1>5, <1>6, <1>7 DEF ReleasesInv

\* The doctor accepts the release, or the link goes back.
LEMMA DoctorKeeps == ASSUME ReleasesInv, NEW rc \in 0..2, Doctor(rc) PROVE ReleasesInv'
<1> USE DEF ReleasesInv, Doctor, services, script, disk
<1>0. schema' \in Nat /\ (schema' = schema \/ schema' >= SchemaOf[source[current]])
  BY OpenedBounds
<1>1. ReleasesTypeOK'
  BY <1>0 DEF ReleasesTypeOK
<1>2. ScriptInv'
  BY DEF ScriptInv, Making
<1>3. RunInv'
  BY DEF RunInv, OnCurrent
<1>4. BackupInv'
  BY <1>0 DEF ScriptInv, BackupInv, Snapshot
<1> QED BY <1>1, <1>2, <1>3, <1>4

\* prune_releases keeps the newest directories and the current one.
LEMMA PruneKeeps == ReleasesInv /\ PruneReleases => ReleasesInv'
<1> SUFFICES ASSUME ReleasesInv, PruneReleases PROVE ReleasesInv'
  OBVIOUS
<1> USE DEF ReleasesInv, PruneReleases, services, script
<1>1. current \in dirs /\ current \in dirs' /\ dirs' \subseteq dirs /\ built' \subseteq dirs' /\ built' \subseteq built
  BY DEF ReleasesTypeOK, ScriptInv, LastReleases
<1>2. ReleasesTypeOK'
  BY <1>1 DEF ReleasesTypeOK
<1>3. ScriptInv' /\ RunInv'
  BY <1>1 DEF ScriptInv, RunInv, OnCurrent, Making
<1>4. BackupInv'
  BY DEF BackupInv, Snapshot
<1> QED BY <1>2, <1>3, <1>4

\* rollback goes to the newest other directory.
LEMMA RollbackKeeps == ReleasesInv /\ Rollback => ReleasesInv'
<1> SUFFICES ASSUME ReleasesInv, Rollback PROVE ReleasesInv'
  OBVIOUS
<1> USE DEF ReleasesInv, Rollback, services, disk
<1>1. previous' \in dirs
  OBVIOUS
<1>2. ReleasesTypeOK'
  BY <1>1 DEF ReleasesTypeOK
<1>3. ScriptInv' /\ RunInv' /\ BackupInv'
  BY <1>1 DEF ScriptInv, RunInv, BackupInv, Making
<1> QED BY <1>2, <1>3

\* uninstall removes the link, the services and, if asked, everything.
LEMMA UninstallKeeps == ASSUME ReleasesInv, NEW purge \in BOOLEAN, Uninstall(purge) PROVE ReleasesInv'
<1> USE DEF ReleasesInv, Uninstall, script
<1>1. ReleasesTypeOK'
  BY DEF ReleasesTypeOK, None
<1>2. ScriptInv' /\ RunInv'
  BY DEF ScriptInv, RunInv, OnCurrent, Making
<1>3. BackupInv'
  BY DEF ScriptInv, BackupInv
<1> QED BY <1>1, <1>2, <1>3

\* The script is killed between two steps.
LEMMA InterruptKeeps == ReleasesInv /\ Interrupt => ReleasesInv'
<1> SUFFICES ASSUME ReleasesInv, Interrupt PROVE ReleasesInv'
  OBVIOUS
<1> USE DEF ReleasesInv
<1>1. /\ UNCHANGED <<made, source, dirs, built, current, loop, api, schema, cmd, new, previous, rejected, down>>
      /\ pc' = "idle" /\ interrupts' = interrupts + 1 /\ backups' \in CutShort
  BY DEF Interrupt, services, script, disk
<1>2. interrupts' \in Nat /\ interrupts' # 0
  <2>1. interrupts \in Nat
    BY DEF ReleasesTypeOK
  <2> QED BY <1>1, <2>1
<1>3. ReleasesTypeOK'
  <2>1. backups' \in Seq(Nat)
    BY <1>1, CutShortKeeps
  <2> QED BY <1>1, <1>2, <2>1 DEF ReleasesTypeOK
<1>4. ScriptInv' /\ RunInv'
  <2>1. ScriptInv'
    BY <1>1 DEF ScriptInv, Making
  <2>2. RunInv'
    BY <1>2 DEF RunInv
  <2> QED BY <2>1, <2>2
<1>5. BackupInv'
  <2>1. Snapshot(schema) => Snapshot(schema)'
    BY <1>1, CutShortKeeps DEF Snapshot
  <2> QED BY <1>1, <2>1 DEF BackupInv
<1> QED BY <1>3, <1>4, <1>5

\* The host reboots: services come up from the link.
LEMMA RebootKeeps == ReleasesInv /\ Reboot => ReleasesInv'
<1> SUFFICES ASSUME ReleasesInv, Reboot PROVE ReleasesInv'
  OBVIOUS
<1>1. /\ UNCHANGED <<made, source, dirs, built, current, cmd, new, previous, rejected, down>>
      /\ pc' = "idle" /\ interrupts' = interrupts + 1 /\ current # None /\ backups' \in CutShort
      /\ loop' \in {Runnable, None} /\ api' \in {Runnable, None} /\ schema' \in Opened /\ ReleasesTypeOK
  BY DEF Reboot, script, disk, ReleasesInv
<1>2. /\ schema' \in Nat /\ (schema' = schema \/ schema' >= SchemaOf[source[current]])
      /\ Runnable \in Nat /\ backups' \in Seq(Nat)
  BY <1>1, OpenedBounds, RunnableIs, CutShortKeeps
<1>3. interrupts' \in Nat /\ interrupts' # 0
  <2>1. interrupts \in Nat
    BY DEF ReleasesInv, ReleasesTypeOK
  <2> QED BY <1>1, <2>1
<1>4. ReleasesTypeOK'
  <2>1. loop' \in Nat /\ api' \in Nat
    BY <1>1, <1>2 DEF None
  <2> QED BY <1>1, <1>2, <1>3, <2>1 DEF ReleasesTypeOK
<1>5. ScriptInv' /\ RunInv'
  <2>1. ScriptInv'
    BY <1>1 DEF ReleasesInv, ScriptInv, Making
  <2>2. RunInv'
    BY <1>3 DEF RunInv
  <2> QED BY <2>1, <2>2
<1>6. BackupInv'
  <2>1. Snapshot(schema) /\ schema' = schema => Snapshot(schema)'
    BY <1>1, CutShortKeeps DEF Snapshot
  <2> QED BY <1>1, <1>2, <2>1 DEF ReleasesInv, BackupInv
<1> QED BY <1>4, <1>5, <1>6 DEF ReleasesInv

-----------------------------------------------------------------------------

\* The inductive invariant of the installer.
THEOREM ReleasesSafe == Spec => []ReleasesInv
<1>1. ASSUME ReleasesInv, [Next]_vars PROVE ReleasesInv'
  <2>1. CASE UNCHANGED vars
    <3> USE <1>1, <2>1 DEF vars, disk, services, script, ReleasesInv
    <3>1. ReleasesTypeOK'
      BY DEF ReleasesTypeOK
    <3>2. ScriptInv' /\ RunInv'
      BY DEF ScriptInv, RunInv, OnCurrent
    <3>3. BackupInv'
      BY DEF BackupInv, Snapshot
    <3> QED BY <3>1, <3>2, <3>3
  <2>2. CASE Next
    BY <1>1, <2>2, UpgradeKeeps, InstallKeeps, BuildKeeps, BackupKeeps, StopKeeps, MigrateKeeps, SwitchKeeps,
       RestartKeeps, DoctorKeeps, PruneKeeps, RollbackKeeps, UninstallKeeps, InterruptKeeps, RebootKeeps DEF Next
  <2> QED BY <1>1, <2>1, <2>2
<1> QED BY <1>1, InitReleases, PTL DEF Spec

\* The link never loses its target (switch_release, prune_releases, uninstall).
THEOREM LinkHasTarget == Spec => []CurrentIsInstalled
<1>1. ReleasesInv => CurrentIsInstalled
  BY DEF ReleasesInv, ReleasesTypeOK, CurrentIsInstalled
<1> QED BY <1>1, ReleasesSafe, PTL

\* A command that was not interrupted leaves no service on another release than the link
\* names, both on it unless a start failed, and never on the one its doctor rejected
\* (services, upgrade_cmd).
THEOREM ServicesRunTheCurrent == Spec => []RunsTheCurrent
<1>1. ReleasesInv => RunsTheCurrent
  BY DEF ReleasesInv, RunInv, OnCurrent, RunsTheCurrent
<1> QED BY <1>1, ReleasesSafe, PTL

\* The code an upgrade brings in migrates only a database of which there is a snapshot
\* (backup_db), also when a reboot does it.
THEOREM UpgradeIsBackedUp == Spec => MigrationIsBackedUp
<1> DEFINE A == /\ schema' > schema /\ schema > 0
                /\ cmd = "upgrade" /\ (current = new \/ pc = "migrate")
                => \E i \in 1..Len(backups) : backups[i] = schema
<1>1. ReleasesInv /\ [Next]_vars => [A]_vars
  <2> SUFFICES ASSUME ReleasesInv, Next, schema' > schema, schema > 0, cmd = "upgrade",
                      current = new \/ pc = "migrate"
               PROVE  Snapshot(schema)
    BY DEF Snapshot
  <2>1. CASE pc = "migrate"
    BY <2>1 DEF ReleasesInv, ReleasesTypeOK, BackupInv
  <2>2. CASE pc # "migrate"
    <3>1. current # None /\ current = new /\ new \in dirs /\ schema \in Nat
      BY <2>2 DEF ReleasesInv, ReleasesTypeOK, ScriptInv
    <3>2. schema < SchemaOf[source[current]]
      <4>1. schema' \in {schema, 0} \/ schema' = Migrated(current)
        BY <2>2, <3>1 DEF Opened, Next, Upgrade, Install, Build, Backup, StopLoop, Migrate, Switch, Restart, PruneReleases,
                          Rollback, Doctor, Uninstall, Interrupt, Reboot
      <4>2. schema' = SchemaOf[source[current]]
        BY <3>1, <4>1 DEF Migrated, Larger
      <4> QED BY <4>2
    <3>3. SchemaOf[source[new]] \in Nat
      BY <3>1, ReleasesConstants DEF ReleasesInv, ReleasesTypeOK
    <3>4. schema = 0 \/ schema >= SchemaOf[source[new]] \/ Snapshot(schema)
      BY <3>1 DEF ReleasesInv, BackupInv
    <3> QED BY <3>1, <3>2, <3>3, <3>4
  <2> QED BY <2>1, <2>2
<1> QED BY <1>1, ReleasesSafe, PTL DEF Spec, MigrationIsBackedUp
=============================================================================
