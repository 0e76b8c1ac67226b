-------------------------------- MODULE Setup --------------------------------
(***************************************************************************)
(* The files of an installation and the commands that change them: init,   *)
(* server, collector keygen and pin, backup and restore, the migrations    *)
(* every process applies as it opens the database, and what the doctor and *)
(* `vpn-pulse run` make of the result.                                     *)
(*                                                                         *)
(* The administrator runs one command at a time, and it may be interrupted *)
(* between any two writes; config.yaml is replaced by a rename, the other  *)
(* files are truncated and then written.  The services write to the log of *)
(* the database (WAL), which a clean stop moves into the main file and a   *)
(* kill leaves behind.                                                     *)
(***************************************************************************)
EXTENDS Integers, Sequences

CONSTANTS
    Servers,      \* ids of servers
    Processes,    \* connections to the database: "run", "api" and the command line, "cli"
    Version,      \* the newest migration this release knows
    Statements,   \* statements in each migration
    Keep,         \* backup --keep
    MaxCommands,  \* bound: commands
    MaxCrashes,   \* bound: commands and processes interrupted
    MaxWrites,    \* bound: writes of the services
    Torn,         \* a file that was truncated and not written
    Absent        \* a file that is not there

\* The tables: rows, the servers' rows, migration statements made, migrations recorded.
Databases == [data : Nat, servers : SUBSET Servers, done : Nat, recorded : Nat]

ASSUME SetupAssumption ==
    /\ Torn # Absent /\ {Torn, Absent} \cap Databases = {}
    /\ {"run", "api", "cli"} = Processes /\ {Version, Statements, Keep} \subseteq Nat \ {0}
    /\ {MaxCommands, MaxCrashes, MaxWrites} \subseteq Nat

VARIABLES
    config,     \* config.yaml: [servers, refs, map, telegram] or Torn
    secrets,    \* secrets/: [map, keys, pins, token] or Absent
    main,       \* the database file: [data, servers, done, recorded] or Torn
    wal,        \* the database its log leads to, or Absent
    archives,   \* backups, oldest first: [whole, config, secrets, db, seen]; seen is an observer
    proc,       \* process -> [pc, seen, at, conf]
    cmd,        \* the command that runs: [name, pc, arg]
    last,       \* observer of the last restore: what was there, the .bak copies, was there a log
    commands, crashes, writes

vars == <<config, secrets, main, wal, archives, proc, cmd, last, commands, crashes, writes>>

files == <<config, secrets, main, wal, archives>>

bounds == <<commands, crashes, writes>>

Down == [pc |-> "down"]

Prompt == [name |-> "prompt", pc |-> "none", arg |-> Absent]

NoRestore == [old |-> Absent, bak |-> Absent, clean |-> FALSE]

\* SQLite takes a file of length zero for a new database and drops its log.
Empty == [data |-> 0, servers |-> {}, done |-> 0, recorded |-> 0]

\* What a connection reads: the log over the main file.
Database == IF main = Torn THEN Empty ELSE IF wal # Absent THEN wal ELSE main

Blank(telegram) == [servers |-> {}, refs |-> {}, map |-> FALSE, telegram |-> telegram]

Fresh == [map |-> Absent, keys |-> {}, pins |-> {}, token |-> Absent]

\* The directory is made when it is not there.
Secrets == IF secrets = Absent THEN Fresh ELSE secrets

\* _read_map, load_collectors_map: no file is an empty map; an empty one is refused.
Entries(map) == IF map = Absent THEN {} ELSE map

\* build_collectors: one for each server whose reference is an entry of the map.
Collectors(c, map) == c.servers \cap c.refs \cap map

\* unreferenced: the servers that are read through probes only.
Unreferenced(c, map) == c.servers \ Collectors(c, map)

\* _entry: what the commands about one collector look up; they refuse without it.
Entry(s) == s \in config.servers /\ s \in Collectors(config, Entries(Secrets.map))

SecretFileStatus(file) == IF file = Absent THEN "missing" ELSE IF file = Torn THEN "empty" ELSE "ok"

-----------------------------------------------------------------------------
(* Commands, one at a time *)

Begin(name, pc, arg) ==
    /\ cmd = Prompt /\ proc["cli"] = Down /\ commands < MaxCommands
    /\ commands' = commands + 1
    /\ cmd' = [name |-> name, pc |-> pc, arg |-> arg]
    /\ UNCHANGED <<proc, crashes, writes>>

\* load_public_config: all but init need a configuration they can read.
BeginLoaded(name, pc, arg) == config # Torn /\ Begin(name, pc, arg)

At(name, pc) == cmd.name = name /\ cmd.pc = pc

Continue(pc) == cmd' = [cmd EXCEPT !.pc = pc] /\ UNCHANGED <<proc, last, bounds>>

End == cmd' = Prompt /\ UNCHANGED <<proc, last, bounds>>

\* server add, with or without --collector-ref: write_config_atomic, then _sync.
ServerAdd(s, ref) ==
    LET c == [config EXCEPT !.servers = @ \cup {s}, !.refs = IF ref THEN @ \cup {s} ELSE @]
    IN  /\ BeginLoaded("server", "open", c) /\ last' = NoRestore
        /\ s \notin config.servers
        /\ config' = c /\ UNCHANGED <<secrets, main, wal, archives>>

\* server remove: the entry goes, its key and its row of the map stay.
ServerRemove(s) ==
    LET c == [config EXCEPT !.servers = @ \ {s}, !.refs = @ \ {s}]
    IN  /\ BeginLoaded("server", "open", c) /\ last' = NoRestore
        /\ s \in config.servers
        /\ config' = c /\ UNCHANGED <<secrets, main, wal, archives>>

\* doctor, and the other commands that open the database.
DoctorCommand == BeginLoaded("doctor", "open", Absent) /\ last' = NoRestore /\ UNCHANGED files

\* init --force: the token, if one is given, a blank configuration, the database.
InitBegin(telegram) ==
    /\ Begin("init", IF telegram THEN "token" ELSE "config", telegram) /\ last' = NoRestore
    /\ secrets' = IF telegram THEN [Secrets EXCEPT !.token = Torn] ELSE Secrets
    /\ UNCHANGED <<config, main, wal, archives>>

InitToken ==
    /\ At("init", "token") /\ Continue("config")
    /\ secrets' = [secrets EXCEPT !.token = "ok"] /\ UNCHANGED <<config, main, wal, archives>>

InitConfig ==
    /\ At("init", "config") /\ cmd' = [cmd EXCEPT !.pc = "open", !.arg = Absent]
    /\ config' = Blank(cmd.arg)
    /\ UNCHANGED <<secrets, main, wal, archives, proc, last, bounds>>

\* collector keygen: the old key goes, a new one takes its place, ...
KeygenBegin(s, force) ==
    /\ BeginLoaded("keygen", "key", s) /\ last' = NoRestore
    /\ s \in config.servers /\ Secrets.map # Torn
    /\ s \in Secrets.keys \cup Entries(Secrets.map) => force
    /\ secrets' = [Secrets EXCEPT !.keys = @ \ {s}] /\ UNCHANGED <<config, main, wal, archives>>

KeygenKey ==
    /\ At("keygen", "key") /\ Continue("map")
    /\ secrets' = [secrets EXCEPT !.keys = @ \cup {cmd.arg}] /\ UNCHANGED <<config, main, wal, archives>>

KeygenFails == At("keygen", "key") /\ End /\ UNCHANGED files

\* ... the entry is added to the map, which is truncated and written, ...
KeygenTruncate ==
    /\ At("keygen", "map") /\ cmd' = [cmd EXCEPT !.pc = "entry", !.arg = <<@, Entries(secrets.map)>>]
    /\ secrets' = [secrets EXCEPT !.map = Torn]
    /\ UNCHANGED <<config, main, wal, archives, proc, last, bounds>>

KeygenEntry ==
    /\ At("keygen", "entry") /\ Continue("config")
    /\ secrets' = [secrets EXCEPT !.map = cmd.arg[2] \cup {cmd.arg[1]}] /\ UNCHANGED <<config, main, wal, archives>>

\* ... and the configuration refers to it.
KeygenConfig ==
    /\ At("keygen", "config") /\ End
    /\ config' = [config EXCEPT !.refs = @ \cup {cmd.arg[1]}, !.map = TRUE]
    /\ UNCHANGED <<secrets, main, wal, archives>>

\* collector pin: known_hosts, truncated and written.
PinBegin(s) ==
    /\ BeginLoaded("pin", "write", s) /\ last' = NoRestore
    /\ Secrets.map # Torn /\ Entry(s)
    /\ secrets' = [secrets EXCEPT !.pins = @ \ {s}] /\ UNCHANGED <<config, main, wal, archives>>

PinWrite ==
    /\ At("pin", "write") /\ End
    /\ secrets' = [secrets EXCEPT !.pins = @ \cup {cmd.arg}] /\ UNCHANGED <<config, main, wal, archives>>

-----------------------------------------------------------------------------
(* backup *)

\* _secret_roots: all secrets are in the one directory beside the configuration.
SecretRoots == IF secrets = Absent THEN {} ELSE {secrets}

Staged(db) ==
    [whole |-> TRUE, config |-> config, secrets |-> IF SecretRoots = {} THEN Absent ELSE secrets,
     db |-> db, seen |-> Database]

Partial == [whole |-> FALSE, config |-> Absent, secrets |-> Absent, db |-> Absent, seen |-> Absent]

\* Mutant: the file of the database is copied, its log is not.
BackupOfTheFile ==
    /\ BeginLoaded("backup", "tar", Staged(main)) /\ last' = NoRestore
    /\ main # Torn
    /\ archives' = Append(archives, Partial) /\ UNCHANGED <<config, secrets, main, wal>>

\* Mutant: room is made before the new archive is written.
BackupAfterPruning ==
    /\ BeginLoaded("backup", "tar", Staged(Database)) /\ last' = NoRestore
    /\ main # Torn
    /\ archives' = Append(SubSeq(archives, Len(archives) - Keep + 2, Len(archives)), Partial)
    /\ UNCHANGED <<config, secrets, main, wal>>

\* A snapshot through SQLite and copies of the files are staged; the archive is opened.
BackupBegin ==
    /\ BeginLoaded("backup", "tar", Staged(Database)) /\ last' = NoRestore
    /\ main # Torn
    /\ archives' = Append(archives, Partial) /\ UNCHANGED <<config, secrets, main, wal>>

BackupTar ==
    /\ At("backup", "tar") /\ Continue("prune")
    /\ archives' = [archives EXCEPT ![Len(archives)] = cmd.arg] /\ UNCHANGED <<config, secrets, main, wal>>

\* The newest Keep archives stay, whole or not.
BackupPrune ==
    /\ At("backup", "prune") /\ End
    /\ archives' = IF Len(archives) > Keep THEN SubSeq(archives, Len(archives) - Keep + 1, Len(archives))
                   ELSE archives
    /\ UNCHANGED <<config, secrets, main, wal>>

-----------------------------------------------------------------------------
(* restore, in place *)

\* _verify_archive: a partial archive and one of a newer schema are refused.
Verified(archive) == archive.whole /\ archive.db.recorded <= Version

\* The services are stopped first, as the command demands.  (--dry-run and --into
\* leave the installation alone.)
RestoreBegin(i) ==
    /\ BeginLoaded("restore", "config", archives[i])
    /\ Verified(archives[i])
    /\ \A p \in Processes : proc[p] = Down
    /\ last' = [old |-> [config |-> config, secrets |-> secrets, db |-> main],
                bak |-> [config |-> config, secrets |-> Absent, db |-> Absent], clean |-> wal = Absent]
    /\ config' = Torn /\ UNCHANGED <<secrets, main, wal, archives>>

RestoreStep(from, to, copied) ==
    /\ At("restore", from) /\ cmd' = [cmd EXCEPT !.pc = to] /\ last' = [last EXCEPT !.bak = copied]
    /\ UNCHANGED <<archives, proc, bounds>>

RestoreConfig ==
    /\ RestoreStep("config", "db", last.bak)
    /\ config' = cmd.arg.config /\ UNCHANGED <<secrets, main, wal>>

\* Mutant: no copy of the database is made.
RestoreTruncateOnly ==
    /\ RestoreStep("db", "db2", last.bak)
    /\ main' = Torn /\ UNCHANGED <<config, secrets, wal>>

\* The database file is copied to .bak and truncated, its log is not looked at.
RestoreTruncate ==
    /\ RestoreStep("db", "db2", [last.bak EXCEPT !.db = main])
    /\ main' = Torn /\ UNCHANGED <<config, secrets, wal>>

RestoreDatabase ==
    /\ RestoreStep("db2", IF cmd.arg.secrets = Absent THEN "restored" ELSE "copytree", last.bak)
    /\ main' = cmd.arg.db /\ UNCHANGED <<config, secrets, wal>>

RestoreCopySecrets ==
    /\ RestoreStep("copytree", "rmtree", [last.bak EXCEPT !.secrets = secrets])
    /\ UNCHANGED <<config, secrets, main, wal>>

RestoreRemoveSecrets ==
    /\ RestoreStep("rmtree", "secrets", last.bak)
    /\ secrets' = Absent /\ UNCHANGED <<config, main, wal>>

RestoreSecrets ==
    /\ RestoreStep("secrets", "restored", last.bak)
    /\ secrets' = cmd.arg.secrets /\ UNCHANGED <<config, main, wal>>

\* integrity_check: ok
RestoreEnd == At("restore", "restored") /\ End /\ UNCHANGED files

-----------------------------------------------------------------------------
(* Processes: open_database with its migrations, then their own start *)

Opens(p, conf) ==
    /\ proc' = [proc EXCEPT ![p] = [pc |-> "migrate", seen |-> Database.recorded, at |-> 0, conf |-> conf]]
    /\ IF main = Torn THEN main' = Empty /\ wal' = Absent ELSE UNCHANGED <<main, wal>>
    /\ UNCHANGED <<config, secrets, archives, bounds>>

Start(p) ==
    /\ p # "cli" /\ proc[p] = Down /\ cmd.name # "restore" /\ config # Torn
    /\ Opens(p, config) /\ last' = NoRestore /\ UNCHANGED cmd

OpenCommand == cmd.pc = "open" /\ Opens("cli", cmd.arg) /\ cmd' = Prompt /\ UNCHANGED last

\* A connection that commits writes to the log.
Commits(p, d, next) ==
    /\ wal' = d /\ proc' = [proc EXCEPT ![p] = next]
    /\ UNCHANGED <<config, secrets, main, archives, cmd, last, bounds>>

\* The last connection that is closed moves the log into the main file.
Leaves(p) ==
    /\ proc' = [proc EXCEPT ![p] = Down]
    /\ IF \A q \in Processes \ {p} : proc[q] = Down
       THEN main' = Database /\ wal' = Absent ELSE UNCHANGED <<main, wal>>
    /\ UNCHANGED <<config, secrets, archives, cmd, last, bounds>>

Missing(p) == proc[p].pc = "migrate" /\ proc[p].seen < Version

\* executescript commits each statement on its own; one that was made before (CREATE
\* TABLE, ALTER TABLE ADD COLUMN) fails.
Migrate(p) ==
    /\ Missing(p) /\ proc[p].at < Statements
    /\ IF Database.done = proc[p].seen * Statements + proc[p].at
       THEN Commits(p, [Database EXCEPT !.done = @ + 1], [proc[p] EXCEPT !.at = @ + 1])
       ELSE Leaves(p)

\* Mutant: the row is written before the last statement.
RecordEarly(p) ==
    /\ Missing(p) /\ proc[p].at + 1 = Statements
    /\ IF Database.recorded = proc[p].seen
       THEN Commits(p, [Database EXCEPT !.recorded = @ + 1], [proc[p] EXCEPT !.seen = @ + 1, !.at = 0])
       ELSE Leaves(p)

\* The row of schema_migrations, whose version is its key.
Record(p) ==
    /\ Missing(p) /\ proc[p].at = Statements
    /\ IF Database.recorded = proc[p].seen
       THEN Commits(p, [Database EXCEPT !.recorded = @ + 1], [proc[p] EXCEPT !.seen = @ + 1, !.at = 0])
       ELSE Leaves(p)

\* real_collectors: the map is there and can be read, and the key and the pinned host
\* key of every collector are in place.
CollectorsReady(c) ==
    c.map => /\ SecretFileStatus(Secrets.map) = "ok"
             /\ Collectors(c, Secrets.map) \subseteq Secrets.keys \cap Secrets.pins

\* make_notifier, build_app: the token is there and not empty.
TelegramReady(c) == c.telegram => SecretFileStatus(Secrets.token) = "ok"

Ready(p, c) == p # "cli" => TelegramReady(c) /\ (p = "run" => CollectorsReady(c))

\* sync_servers, but for the commands that only open the database and for an API
\* that has no servers (create_app).
Synced(p, c) ==
    IF c = Absent \/ (p = "api" /\ c.servers = {}) THEN Database
    ELSE [Database EXCEPT !.servers = c.servers]

Serve(p) ==
    /\ proc[p].pc = "migrate" /\ proc[p].seen = Version
    /\ IF Ready(p, proc[p].conf) THEN Commits(p, Synced(p, proc[p].conf), [pc |-> "up"]) ELSE Leaves(p)

Write(p) ==
    /\ p # "cli" /\ proc[p].pc = "up" /\ writes < MaxWrites /\ writes' = writes + 1
    /\ wal' = [Database EXCEPT !.data = @ + 1]
    /\ UNCHANGED <<config, secrets, main, archives, proc, cmd, last, commands, crashes>>

Stop(p) == proc[p].pc = "up" /\ Leaves(p)

Kill(p) ==
    /\ proc[p] # Down /\ crashes < MaxCrashes /\ crashes' = crashes + 1
    /\ proc' = [proc EXCEPT ![p] = Down]
    /\ UNCHANGED <<files, cmd, last, commands, writes>>

Interrupt ==
    /\ cmd # Prompt /\ crashes < MaxCrashes /\ crashes' = crashes + 1
    /\ cmd' = Prompt /\ UNCHANGED <<files, proc, last, commands, writes>>

-----------------------------------------------------------------------------

Init ==
    /\ config = Blank(FALSE)
    /\ secrets = Fresh
    /\ main = [data |-> 0, servers |-> {}, done |-> (Version - 1) * Statements, recorded |-> Version - 1]
    /\ wal = Absent
    /\ archives = <<>> /\ proc = [p \in Processes |-> Down] /\ cmd = Prompt /\ last = NoRestore
    /\ commands = 0 /\ crashes = 0 /\ writes = 0

Command ==
    \/ \E s \in Servers, ref \in BOOLEAN : ServerAdd(s, ref)
    \/ \E s \in Servers : ServerRemove(s) \/ PinBegin(s) \/ \E force \in BOOLEAN : KeygenBegin(s, force)
    \/ \E telegram \in BOOLEAN : InitBegin(telegram)
    \/ DoctorCommand \/ OpenCommand \/ InitToken \/ InitConfig \/ PinWrite
    \/ KeygenKey \/ KeygenFails \/ KeygenTruncate \/ KeygenEntry \/ KeygenConfig
    \/ BackupBegin \/ BackupTar \/ BackupPrune
    \/ \E i \in DOMAIN archives : RestoreBegin(i)
    \/ RestoreConfig \/ RestoreTruncate \/ RestoreDatabase
    \/ RestoreCopySecrets \/ RestoreRemoveSecrets \/ RestoreSecrets \/ RestoreEnd

Service(p) == Start(p) \/ Migrate(p) \/ Record(p) \/ Serve(p) \/ Write(p) \/ Stop(p) \/ Kill(p)

Next == Command \/ Interrupt \/ \E p \in Processes : Service(p)

Spec == Init /\ [][Next]_vars

-----------------------------------------------------------------------------
(* doctor: local_checks, run_doctor.  The connection it opens is DoctorCommand's. *)

\* Mutant: the pinned host keys are not looked at.
FindingsButPins ==
    LET found == Collectors(config, Secrets.map)
    IN  IF config.servers = {} \/ ~config.map \/ Secrets.map = Absent THEN {}
        ELSE IF Secrets.map = Torn THEN {"invalid"}
        ELSE {"missing" : s \in Unreferenced(config, Secrets.map)} \cup {"key" : s \in found \ Secrets.keys}

CollectorsFindings ==
    LET found == Collectors(config, Secrets.map)
    IN  IF config.servers = {} \/ ~config.map \/ Secrets.map = Absent THEN {}
        ELSE IF Secrets.map = Torn THEN {"invalid"}
        ELSE {"missing" : s \in Unreferenced(config, Secrets.map)}
             \cup {"key" : s \in found \ Secrets.keys}
             \cup {"pin" : s \in (found \cap Secrets.keys) \ Secrets.pins}

Findings ==
    CollectorsFindings
    \cup (IF Database.done = Database.recorded * Statements THEN {} ELSE {"storage"})
    \cup (IF TelegramReady(config) THEN {} ELSE {"telegram"})

\* https_check: nothing to say, no name or certificate, or one that ends soon.
HttpsCheck == {{}, {"https"}, {"expiring"}}

\* The result, and the exit status: the worst of the findings.
DoctorResult(https) ==
    LET found == Findings \cup https
    IN  IF found \cap {"invalid", "key", "storage", "telegram", "https"} # {} THEN "fail"
        ELSE IF found # {} THEN "warn" ELSE "ok"

\* collector test: what it demands before it calls the helper of a server.
Testable(s) ==
    /\ Secrets.map # Torn /\ Entry(s)
    /\ s \in Secrets.keys \cap Secrets.pins

-----------------------------------------------------------------------------
(* Properties *)

\* database.py: a service that is up has a schema with every statement of every
\* migration, and the row that says so, whoever migrated it, side by side with
\* whom, and wherever an earlier attempt was killed.
ServesWholeSchema ==
    \A p \in Processes : proc[p].pc = "up" =>
        Database.recorded = Version /\ Database.done = Version * Statements

\* backup.py: archives are pruned only after a new one is whole: once there was one
\* that can be restored, there always is, wherever backups are interrupted.
AnArchiveRemains ==
    [][(\E i \in DOMAIN archives : archives[i].whole) =>
         (\E i \in DOMAIN archives' : archives'[i].whole)]_vars

\* backup.py: "backups end in .bak": an in-place restore, wherever it is interrupted,
\* leaves the old configuration, secrets and database whole, in their place or as a
\* copy.  (The copy of a database whose services were killed lacks its log.)
NothingIsLost ==
    last # NoRestore /\ last.clean =>
        /\ last.old.config \in {config, last.bak.config}
        /\ last.old.secrets \in {secrets, last.bak.secrets}
        /\ last.old.db \in {main, last.bak.db}

Restored ==
    /\ config = cmd.arg.config /\ Database = cmd.arg.seen
    /\ cmd.arg.secrets # Absent => secrets = cmd.arg.secrets

\* After a restore that began with the services stopped cleanly the installation is
\* the one the backup saw: configuration, secrets, and all that could be read from the
\* database then, in its file or in its log.
CleanRestoreIsTheArchive == At("restore", "restored") /\ last.clean => Restored

\* backup.py: "restored config, database and secrets; integrity_check: ok": with the
\* services stopped, cleanly or not, the database is the archived one.
RestoredIsTheArchive == At("restore", "restored") => Restored

\* What the doctor does not look for: a configured map that is not there, or a torn
\* one while no server is configured.
DoctorOverlooks ==
    config.map /\ (Secrets.map = Absent \/ (Secrets.map = Torn /\ config.servers = {}))

\* doctor.py and run.py: when the doctor is satisfied with the files, vpn-pulse run
\* starts on them exactly if the doctor overlooks nothing, whichever command was
\* interrupted before: run refuses in those two cases and in no other.  The API
\* starts in all of them, and where run does, every configured collector can be tested.
DoctorForesees ==
    config # Torn /\ (\E https \in HttpsCheck : DoctorResult(https) = "ok") =>
        /\ Ready("run", config) <=> ~DoctorOverlooks
        /\ Ready("api", config)
        /\ config.map /\ ~DoctorOverlooks => \A s \in config.servers : Testable(s)
=============================================================================
