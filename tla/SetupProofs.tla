----------------------------- MODULE SetupProofs -----------------------------
(***************************************************************************)
(* The files of an installation stay usable wherever commands and          *)
(* processes are interrupted, for any migrations, servers and archives.    *)
(***************************************************************************)
EXTENDS Setup, TLAPS

Configs == [servers : SUBSET Servers, refs : SUBSET Servers, map : BOOLEAN, telegram : BOOLEAN]

Dirs == [map : (SUBSET Servers) \cup {Torn, Absent}, keys : SUBSET Servers, pins : SUBSET Servers,
         token : {Torn, Absent, "ok"}]

\* What the migrations leave behind, complete or not: the statements of every recorded
\* migration, and at most those of the next one.
Whole(d) ==
    /\ d.recorded <= Version /\ d.recorded * Statements <= d.done /\ d.done <= (d.recorded + 1) * Statements
    /\ d.recorded = Version => d.done = Version * Statements

Good == {d \in Databases : Whole(d)}

\* Archives that were written to the end, and the others.
Wholes == {a \in [whole : {TRUE}, config : Configs, secrets : Dirs \cup {Absent}, db : Good, seen : Good] : a.db = a.seen}

Archives == Wholes \cup {Partial}

Migrating == [pc : {"migrate"}, seen : Nat, at : 0..Statements, conf : Configs \cup {Absent}]

Working == [pc |-> "up"]

\* The statements a process has made are in the schema; one that is up saw them all.
ProcessOK(task, d) ==
    /\ task \in Migrating \cup {Down, Working}
    /\ task \in Migrating => task.seen <= d.recorded /\ task.seen * Statements + task.at <= d.done
    /\ task = Working => d.recorded = Version

DataInv ==
    /\ main \in Good \cup {Torn} /\ wal \in Good \cup {Absent}
    /\ DOMAIN proc = Processes /\ \A p \in Processes : ProcessOK(proc[p], Database)
    /\ main = Torn => \A p \in Processes : proc[p] = Down

FilesInv == config \in Configs \cup {Torn} /\ secrets \in Dirs \cup {Absent} /\ archives \in Seq(Archives)

\* What a command may count on.
CommandInv ==
    /\ cmd = [name |-> cmd.name, pc |-> cmd.pc, arg |-> cmd.arg]
    /\ cmd.name \in {"prompt", "server", "doctor", "init", "keygen", "pin", "backup", "restore"}
    /\ cmd.name = "prompt" => cmd = Prompt
    /\ cmd.name \in {"server", "doctor"} => cmd.pc = "open"
    /\ cmd.pc = "open" => cmd.name \in {"server", "doctor", "init"} /\ cmd.arg \in Configs \cup {Absent}
    /\ cmd.name = "init" => secrets \in Dirs /\ (cmd.pc # "open" => cmd.arg \in BOOLEAN)
    /\ cmd.name = "keygen" =>
          /\ config \in Configs /\ secrets \in Dirs /\ cmd.pc \in {"key", "map", "entry", "config"}
          /\ cmd.pc \in {"key", "map"} => cmd.arg \in Servers /\ secrets.map # Torn
          /\ cmd.pc \in {"entry", "config"} => cmd.arg \in Servers \X (SUBSET Servers)
    /\ cmd.name = "pin" => secrets \in Dirs /\ cmd.arg \in Servers
    /\ cmd.name = "backup" =>
          /\ cmd.pc \in {"tar", "prune"} /\ cmd.arg \in Wholes /\ archives # <<>>
          /\ cmd.pc = "prune" => archives[Len(archives)] \in Wholes

\* How far an in-place restore is, and what it has put aside.
RestoreInv ==
    cmd.name = "restore" =>
        /\ cmd.pc \in {"config", "db", "db2", "copytree", "rmtree", "secrets", "restored"}
        /\ cmd.arg \in Wholes /\ (\A p \in Processes : proc[p] = Down)
        /\ last = [old |-> last.old, bak |-> last.bak, clean |-> last.clean]
        /\ last.bak = [config |-> last.bak.config, secrets |-> last.bak.secrets, db |-> last.bak.db]
        /\ last.clean <=> wal = Absent
        /\ last.bak.config = last.old.config
        /\ IF cmd.pc \in {"config", "db"} THEN main = last.old.db ELSE last.bak.db = last.old.db
        /\ IF cmd.pc \in {"config", "db", "db2", "copytree"} THEN secrets = last.old.secrets
           ELSE last.old.secrets \in {secrets, last.bak.secrets}
        /\ cmd.pc = "rmtree" => last.bak.secrets = last.old.secrets
        /\ cmd.pc = "secrets" => last.bak.secrets = last.old.secrets
        /\ cmd.pc # "config" => config = cmd.arg.config
        /\ cmd.pc \notin {"config", "db", "db2"} => main = cmd.arg.db
        /\ cmd.pc = "copytree" => cmd.arg.secrets # Absent
        /\ cmd.pc = "restored" /\ cmd.arg.secrets # Absent => secrets = cmd.arg.secrets

Kept ==
    /\ last.old.config \in {config, last.bak.config}
    /\ last.old.secrets \in {secrets, last.bak.secrets}
    /\ last.old.db \in {main, last.bak.db}

\* Whatever changes a file outside a restore begins by giving up the last one's copies.
KeptInv ==
    /\ cmd.name \notin {"prompt", "restore"} => last = NoRestore
    /\ (\E p \in Processes : proc[p] # Down) => last = NoRestore
    /\ last # NoRestore => Kept

SetupInv == DataInv /\ FilesInv /\ CommandInv /\ RestoreInv /\ KeptInv

-----------------------------------------------------------------------------
(* Migrations *)

\* What the assumption says, in the form the provers use.
LEMMA SetupConstants ==
    /\ Torn # Absent /\ Torn \notin Databases /\ Absent \notin Databases
    /\ Version \in Nat /\ Version >= 1 /\ Statements \in Nat /\ Statements >= 1 /\ Keep \in Nat /\ Keep >= 1
    /\ "run" \in Processes /\ "api" \in Processes /\ "cli" \in Processes
  BY SetupAssumption

\* Multiplication by the number of statements is monotone.
LEMMA Multiples ==
  ASSUME NEW a \in Nat, NEW b \in Nat, NEW s \in Nat
  PROVE  a * s \in Nat /\ (a + 1) * s = a * s + s /\ (a < b => (a + 1) * s <= b * s)
<1>1. a * s \in Nat /\ (a + 1) * s = a * s + s
  OBVIOUS
<1>2. ASSUME a < b PROVE (a + 1) * s <= b * s
  <2>1. PICK c \in Nat : b = a + 1 + c
    <3>1. b - (a + 1) \in Nat /\ b = a + 1 + (b - (a + 1))
      BY <1>2
    <3> QED BY <3>1
  <2>2. b * s = (a + 1) * s + c * s /\ c * s \in Nat /\ (a + 1) * s \in Nat
    BY <2>1
  <2> QED BY <2>2
<1> QED BY <1>1, <1>2

\* What a connection sees, file and log together, is a database with a possible schema.
LEMMA DatabaseIsGood == ASSUME DataInv PROVE Database \in Good /\ Empty \in Good
<1>1. Empty \in Good
  <2>1. Empty \in Databases /\ Empty.recorded = 0 /\ Empty.done = 0
    BY DEF Empty, Databases
  <2>2. 0 * Statements = 0 /\ (0 + 1) * Statements = Statements
    BY SetupConstants
  <2> QED BY <2>1, <2>2, SetupConstants DEF Good, Whole
<1> QED BY <1>1 DEF DataInv, Database

\* The fields of such a database.
LEMMA GoodFields ==
  ASSUME NEW d \in Good
  PROVE  /\ d \in Databases /\ d.recorded \in Nat /\ d.done \in Nat /\ d # Torn /\ d # Absent
         /\ d.recorded <= Version /\ d.recorded * Statements <= d.done /\ d.done <= (d.recorded + 1) * Statements
         /\ d.recorded = Version => d.done = Version * Statements
  BY SetupConstants DEF Good, Databases, Whole

\* A statement finds the schema where its process left it: then nobody has recorded
\* the migration, and the schema stays within it.
LEMMA StatementIsNext ==
  ASSUME NEW d \in Good, NEW seen \in Nat, NEW at \in Nat, at < Statements, seen < Version, seen <= d.recorded,
         d.done = seen * Statements + at
  PROVE  d.recorded = seen /\ [d EXCEPT !.done = @ + 1] \in Good
<1> DEFINE S == Statements r == d.recorded
<1>1. r \in Nat /\ r <= Version /\ r * S <= d.done /\ S \in Nat /\ d.done \in Nat
  BY GoodFields, SetupConstants
<1>2. (seen + 1) * S = seen * S + S /\ seen * S \in Nat /\ (seen < r => (seen + 1) * S <= r * S) /\ r * S \in Nat
  BY <1>1, Multiples
<1>3. r = seen
  BY <1>1, <1>2
<1>4. d.done + 1 <= (seen + 1) * S /\ d.done + 1 \in Nat /\ seen * S <= d.done + 1
  BY <1>1, <1>2
<1>5. d \in Databases
  BY GoodFields
<1>6. /\ [d EXCEPT !.done = @ + 1] \in Databases /\ [d EXCEPT !.done = @ + 1].done = d.done + 1
      /\ [d EXCEPT !.done = @ + 1].recorded = d.recorded
  BY <1>4, <1>5 DEF Databases
<1>7. Whole([d EXCEPT !.done = @ + 1])
  BY <1>3, <1>4, <1>6, SetupConstants DEF Whole
<1> QED BY <1>3, <1>6, <1>7 DEF Good

\* The row is written when the last statement was made.
LEMMA RecordIsDue ==
  ASSUME NEW d \in Good, d.recorded < Version, d.recorded * Statements + Statements <= d.done
  PROVE  [d EXCEPT !.recorded = @ + 1] \in Good /\ d.done = (d.recorded + 1) * Statements
<1> DEFINE S == Statements r == d.recorded
<1>1. r \in Nat /\ d.done \in Nat /\ S \in Nat /\ Version \in Nat /\ d.done <= (r + 1) * S /\ d \in Databases
  BY GoodFields, SetupConstants
<1>2. (r + 1) * S = r * S + S /\ r * S \in Nat /\ (r + 1 + 1) * S = (r + 1) * S + S
  BY <1>1, Multiples
<1>3. d.done = (r + 1) * S
  BY <1>1, <1>2
<1>4. r + 1 \in Nat /\ r + 1 <= Version /\ d.done <= (r + 1 + 1) * S
  BY <1>1, <1>2, <1>3
<1>5. /\ [d EXCEPT !.recorded = @ + 1] \in Databases /\ [d EXCEPT !.recorded = @ + 1].done = d.done
      /\ [d EXCEPT !.recorded = @ + 1].recorded = r + 1
  BY <1>1, <1>4 DEF Databases
<1>6. (r + 1) * S <= d.done /\ (r + 1 = Version => d.done = Version * S)
  BY <1>1, <1>2, <1>3
<1> DEFINE e == [d EXCEPT !.recorded = @ + 1]
<1>7. e.done = d.done /\ e.recorded = r + 1
  BY <1>5
<1> HIDE DEF e, r
<1>8. Whole(e)
  BY <1>4, <1>6, <1>7 DEF Whole
<1> QED BY <1>3, <1>5, <1>8 DEF Good, e, r

\* A process that migrates is neither down nor working.
LEMMA TaskShape ==
  ASSUME NEW task \in Migrating
  PROVE  /\ task.pc = "migrate" /\ task.seen \in Nat /\ task.at \in 0..Statements /\ task.conf \in Configs \cup {Absent}
         /\ task # Down /\ task # Working
  BY DEF Migrating, Down, Working

\* The database of a process that is alive only grows.
LEMMA ProcessGrows ==
  ASSUME NEW d \in Good, NEW e \in Good, NEW task, ProcessOK(task, d), d.recorded <= e.recorded, d.done <= e.done
  PROVE  ProcessOK(task, e)
<1>1. d.recorded \in Nat /\ d.done \in Nat /\ e.recorded \in Nat /\ e.done \in Nat /\ e.recorded <= Version /\ Version \in Nat
  BY GoodFields, SetupConstants
<1>2. CASE task \in Migrating
  <2>1. task.seen \in Nat /\ task.at \in Nat /\ task.seen * Statements \in Nat /\ task # Working
    BY <1>2, TaskShape, Multiples, SetupConstants
  <2> QED BY <1>1, <1>2, <2>1 DEF ProcessOK
<1>3. CASE task \notin Migrating
  BY <1>1, <1>3 DEF ProcessOK
<1> QED BY <1>2, <1>3

-----------------------------------------------------------------------------
(* Processes *)

\* While a process is alive the file is whole and no restore is going on.
LEMMA AliveMeans ==
  ASSUME SetupInv, NEW p \in Processes, proc[p] # Down
  PROVE  main \in Good /\ main # Torn /\ cmd.name # "restore" /\ last = NoRestore
  BY DEF SetupInv, DataInv, RestoreInv, KeptInv

\* A step of a process leaves the commands and their files alone.
LEMMA QuietKeeps ==
  ASSUME SetupInv, cmd.name # "restore", last = NoRestore, UNCHANGED <<config, secrets, archives, cmd, last>>, DataInv'
  PROVE  SetupInv'
<1>1. FilesInv'
  BY DEF SetupInv, FilesInv
<1>2. CommandInv'
  BY DEF SetupInv, CommandInv
<1>3. RestoreInv' /\ KeptInv'
  BY DEF SetupInv, RestoreInv, KeptInv
<1> QED BY <1>1, <1>2, <1>3 DEF SetupInv

\* A commit that moves the schema forward keeps the data's invariant.
LEMMA CommitData ==
  ASSUME SetupInv, NEW p \in Processes, proc[p] # Down, NEW d \in Good,
         Database.recorded <= d.recorded, Database.done <= d.done, NEW next, ProcessOK(next, d),
         wal' = d, main' = main,
         DOMAIN proc' = Processes /\ proc'[p] = next /\ \A q \in Processes \ {p} : proc'[q] = proc[q]
  PROVE  DataInv'
<1>1. main \in Good /\ main # Torn /\ d # Absent /\ Database \in Good
  BY AliveMeans, GoodFields, DatabaseIsGood DEF SetupInv
<1>2. Database' = d
  BY <1>1 DEF Database
<1>3. \A q \in Processes \ {p} : ProcessOK(proc[q], d)
  BY <1>1, ProcessGrows DEF SetupInv, DataInv
<1>4. \A q \in Processes : ProcessOK(proc'[q], d)
  BY <1>3
<1> QED BY <1>1, <1>2, <1>4 DEF DataInv

\* ... and the whole invariant.
LEMMA CommitKeeps ==
  ASSUME SetupInv, NEW p \in Processes, proc[p] # Down, NEW d \in Good,
         Database.recorded <= d.recorded, Database.done <= d.done, NEW next, ProcessOK(next, d), Commits(p, d, next)
  PROVE  SetupInv'
<1>0. DOMAIN proc' = Processes /\ proc'[p] = next /\ \A q \in Processes \ {p} : proc'[q] = proc[q]
  BY DEF SetupInv, DataInv, Commits
<1>1. DataInv'
  BY <1>0, CommitData DEF Commits
<1> QED BY <1>1, AliveMeans, QuietKeeps DEF Commits

\* A process that is down claims nothing.
LEMMA DownIsOK == ASSUME NEW d PROVE ProcessOK(Down, d)
  BY TaskShape DEF ProcessOK, Down, Working

\* A process closes its connection: the last one moves the log into the file.
LEMMA LeaveKeeps ==
  ASSUME SetupInv, NEW p \in Processes, proc[p] # Down, Leaves(p)
  PROVE  SetupInv'
<1>1. main \in Good /\ main # Torn /\ Database \in Good /\ cmd.name # "restore" /\ last = NoRestore
  BY AliveMeans, DatabaseIsGood DEF SetupInv
<1>2. /\ proc' = [proc EXCEPT ![p] = Down] /\ UNCHANGED <<config, secrets, archives, cmd, last>>
      /\ \/ main' = Database /\ wal' = Absent
         \/ main' = main /\ wal' = wal
  BY DEF Leaves
<1>3. main' \in Good /\ main' # Torn /\ wal' \in Good \cup {Absent} /\ Database' = Database
  <2>1. CASE main' = Database /\ wal' = Absent
    BY <1>1, <2>1, GoodFields DEF Database
  <2>2. CASE main' = main /\ wal' = wal
    BY <1>1, <2>2 DEF Database, SetupInv, DataInv
  <2> QED BY <1>2, <2>1, <2>2
<1>4. DOMAIN proc' = Processes /\ \A q \in Processes : proc'[q] = Down \/ proc'[q] = proc[q]
  BY <1>2 DEF SetupInv, DataInv
<1>5. \A q \in Processes : ProcessOK(proc'[q], Database)
  BY <1>4, DownIsOK DEF SetupInv, DataInv
<1>6. DataInv'
  BY <1>3, <1>4, <1>5 DEF DataInv
<1> QED BY <1>1, <1>2, <1>6, QuietKeeps

\* A process is killed: its log stays.
LEMMA KillKeeps == ASSUME SetupInv, NEW p \in Processes, Kill(p) PROVE SetupInv'
<1>1. proc[p] # Down /\ proc' = [proc EXCEPT ![p] = Down] /\ UNCHANGED <<config, secrets, archives, main, wal, cmd, last>>
  BY DEF Kill, files
<1>2. DOMAIN proc' = Processes /\ \A q \in Processes : proc'[q] = Down \/ proc'[q] = proc[q]
  BY <1>1 DEF SetupInv, DataInv
<1>3. \A q \in Processes : ProcessOK(proc'[q], Database)
  BY <1>2, DownIsOK DEF SetupInv, DataInv
<1>4. Database' = Database
  BY <1>1 DEF Database
<1>5. DataInv'
  BY <1>1, <1>2, <1>3, <1>4 DEF SetupInv, DataInv
<1> QED BY <1>1, <1>5, AliveMeans, QuietKeeps

\* A process that migrates, and the database it looks at.
LEMMA MigratingMeans ==
  ASSUME SetupInv, NEW p \in Processes, proc[p].pc = "migrate"
  PROVE  /\ proc[p] \in Migrating /\ proc[p] # Down /\ proc[p].seen \in Nat /\ proc[p].at \in 0..Statements
         /\ proc[p].conf \in Configs \cup {Absent}
         /\ proc[p].seen <= Database.recorded /\ proc[p].seen * Statements + proc[p].at <= Database.done
<1>1. ProcessOK(proc[p], Database) /\ Down.pc # "migrate" /\ Working.pc # "migrate"
  BY DEF SetupInv, DataInv, Down, Working
<1>2. proc[p] \in Migrating
  BY <1>1 DEF ProcessOK
<1> QED BY <1>1, <1>2, TaskShape DEF ProcessOK

\* apply_migrations makes its next statement.
LEMMA MigrateKeeps == ASSUME SetupInv, NEW p \in Processes, Migrate(p) PROVE SetupInv'
<1> DEFINE seen == proc[p].seen at == proc[p].at
<1>1. proc[p].pc = "migrate" /\ seen < Version /\ at < Statements
  BY DEF Migrate, Missing
<1>2. /\ proc[p] \in Migrating /\ proc[p] # Down /\ seen \in Nat /\ at \in 0..Statements /\ seen <= Database.recorded
      /\ Database \in Good /\ Statements \in Nat
  BY <1>1, MigratingMeans, DatabaseIsGood, SetupConstants DEF SetupInv
<1>3. CASE Database.done = seen * Statements + at
  <2> DEFINE d == [Database EXCEPT !.done = @ + 1]
             next == [proc[p] EXCEPT !.at = @ + 1]
  <2>1. at \in Nat /\ at + 1 \in 0..Statements /\ seen * Statements \in Nat
    BY <1>1, <1>2, Multiples
  <2>2. Database.recorded = seen /\ d \in Good
    BY <1>1, <1>2, <1>3, <2>1, StatementIsNext
  <2>3. d.done = Database.done + 1 /\ d.recorded = Database.recorded /\ Database.done \in Nat /\ Database.recorded \in Nat
    BY <1>2, GoodFields DEF Databases
  <2>4. next \in Migrating /\ next.seen = seen /\ next.at = at + 1
    BY <1>2, <2>1 DEF Migrating
  <2>5. Commits(p, d, next)
    BY <1>3 DEF Migrate
  <2> HIDE DEF d, next
  <2>6. next.seen <= d.recorded /\ next.seen * Statements + next.at <= d.done
    BY <1>2, <1>3, <2>1, <2>2, <2>3, <2>4
  <2>7. ProcessOK(next, d)
    BY <2>4, <2>6, TaskShape DEF ProcessOK
  <2>8. Database.recorded <= d.recorded /\ Database.done <= d.done
    BY <2>3
  <2> QED BY <1>2, <2>2, <2>5, <2>7, <2>8, CommitKeeps
<1>4. CASE Database.done # seen * Statements + at
  BY <1>2, <1>4, LeaveKeeps DEF Migrate
<1> QED BY <1>3, <1>4

\* apply_migrations records a migration after its last statement.
LEMMA RecordKeeps == ASSUME SetupInv, NEW p \in Processes, Record(p) PROVE SetupInv'
<1> DEFINE seen == proc[p].seen
<1>1. proc[p].pc = "migrate" /\ seen < Version /\ proc[p].at = Statements
  BY DEF Record, Missing
<1>2. /\ proc[p] \in Migrating /\ proc[p] # Down /\ seen \in Nat /\ seen * Statements + Statements <= Database.done
      /\ Database \in Good /\ Statements \in Nat
  BY <1>1, MigratingMeans, DatabaseIsGood, SetupConstants DEF SetupInv
<1>3. CASE Database.recorded = seen
  <2> DEFINE d == [Database EXCEPT !.recorded = @ + 1]
             next == [proc[p] EXCEPT !.seen = @ + 1, !.at = 0]
  <2>1. d \in Good /\ Database.done = (seen + 1) * Statements
    BY <1>1, <1>2, <1>3, RecordIsDue
  <2>2. d.done = Database.done /\ d.recorded = seen + 1 /\ Database.done \in Nat
    BY <1>2, <1>3, GoodFields DEF Databases
  <2>3. next \in Migrating /\ next.seen = seen + 1 /\ next.at = 0
    <3> DEFINE n == seen + 1
    <3>1. 0 \in 0..Statements /\ n \in Nat
      BY <1>2
    <3> HIDE DEF n
    <3> DEFINE task == proc[p]
    <3>2. task \in Migrating
      BY <1>2
    <3> HIDE DEF task
    <3>3. /\ [task EXCEPT !.seen = n, !.at = 0] \in Migrating
          /\ [task EXCEPT !.seen = n, !.at = 0].seen = n /\ [task EXCEPT !.seen = n, !.at = 0].at = 0
      BY <3>1, <3>2 DEF Migrating
    <3> QED BY <3>3 DEF n, task
  <2>4. Commits(p, d, next)
    BY <1>3 DEF Record
  <2> HIDE DEF d, next
  <2>5. next.seen <= d.recorded /\ next.seen * Statements + next.at <= d.done
    <3>1. (seen + 1) * Statements + 0 = (seen + 1) * Statements
      BY <1>2
    <3> QED BY <1>2, <2>1, <2>2, <2>3, <3>1
  <2>6. ProcessOK(next, d)
    BY <2>3, <2>5, TaskShape DEF ProcessOK
  <2>7. Database.recorded <= d.recorded /\ Database.done <= d.done
    BY <1>2, <1>3, <2>2
  <2> QED BY <1>2, <2>1, <2>4, <2>6, <2>7, CommitKeeps
<1>4. CASE Database.recorded # seen
  BY <1>2, <1>4, LeaveKeeps DEF Record
<1> QED BY <1>3, <1>4

\* sync_servers leaves the schema alone.
LEMMA SyncedIsGood ==
  ASSUME NEW p, NEW c \in Configs \cup {Absent}, Database \in Good
  PROVE  /\ Synced(p, c) \in Good /\ Synced(p, c).recorded = Database.recorded
         /\ Synced(p, c).done = Database.done
<1>1. CASE Synced(p, c) = Database
  BY <1>1
<1>2. CASE c # Absent /\ Synced(p, c) = [Database EXCEPT !.servers = c.servers]
  <2> DEFINE known == c.servers
  <2>1. known \in SUBSET Servers /\ Database \in Databases
    BY <1>2, GoodFields DEF Configs
  <2> HIDE DEF known
  <2>2. /\ [Database EXCEPT !.servers = known] \in Databases
        /\ [Database EXCEPT !.servers = known].recorded = Database.recorded
        /\ [Database EXCEPT !.servers = known].done = Database.done
    BY <2>1 DEF Databases
  <2>3. [Database EXCEPT !.servers = known] \in Good
    BY <2>2 DEF Good, Whole
  <2> QED BY <1>2, <2>2, <2>3 DEF known
<1> QED BY <1>1, <1>2 DEF Synced

\* A service that has migrated goes up or refuses.
LEMMA ServeKeeps == ASSUME SetupInv, NEW p \in Processes, Serve(p) PROVE SetupInv'
<1> DEFINE d == Synced(p, proc[p].conf)
<1>1. proc[p].pc = "migrate" /\ proc[p].seen = Version /\ (Commits(p, d, Working) \/ Leaves(p))
  BY DEF Serve, Working
<1>2. proc[p] # Down /\ Version <= Database.recorded /\ proc[p].conf \in Configs \cup {Absent} /\ Database \in Good
  BY <1>1, MigratingMeans, DatabaseIsGood DEF SetupInv
<1>3. d \in Good /\ d.recorded = Database.recorded /\ d.done = Database.done
  BY <1>2, SyncedIsGood
<1>4. Database.recorded \in Nat /\ Database.done \in Nat /\ Database.recorded <= Version /\ Version \in Nat
  BY <1>2, GoodFields, SetupConstants
<1>5. Database.recorded = Version
  BY <1>2, <1>4
<1>6. Working \notin Migrating
  BY TaskShape
<1>7. ProcessOK(Working, d)
  BY <1>3, <1>5, <1>6 DEF ProcessOK
<1>8. Database.recorded <= d.recorded /\ Database.done <= d.done
  BY <1>3, <1>4
<1> HIDE DEF d
<1>9. CASE Commits(p, d, Working)
  BY <1>2, <1>3, <1>7, <1>8, <1>9, CommitKeeps
<1>10. CASE Leaves(p)
  BY <1>2, <1>10, LeaveKeeps
<1> QED BY <1>1, <1>9, <1>10

\* A service that is up is not down.
LEMMA UpIsNotDown == ASSUME NEW p, proc[p].pc = "up" PROVE proc[p] # Down
  BY DEF Down

\* A service is stopped.
LEMMA StopKeeps == ASSUME SetupInv, NEW p \in Processes, Stop(p) PROVE SetupInv'
  BY UpIsNotDown, LeaveKeeps DEF Stop

\* A service writes data.
LEMMA WriteKeeps == ASSUME SetupInv, NEW p \in Processes, Write(p) PROVE SetupInv'
<1> DEFINE d == [Database EXCEPT !.data = @ + 1]
<1>1. /\ proc[p].pc = "up" /\ wal' = d /\ UNCHANGED <<config, secrets, main, archives, proc, cmd, last>>
  BY DEF Write
<1>2. proc[p] # Down /\ Database \in Good
  BY <1>1, UpIsNotDown, DatabaseIsGood DEF SetupInv
<1>3. Database \in Databases /\ Database.recorded \in Nat /\ Database.done \in Nat
  BY <1>2, GoodFields
<1>4. d \in Databases /\ d.recorded = Database.recorded /\ d.done = Database.done
  <2> DEFINE old == Database n == Database.data + 1
  <2>1. old \in Databases /\ n \in Nat
    BY <1>3 DEF Databases
  <2> HIDE DEF old, n
  <2>2. /\ [old EXCEPT !.data = n] \in Databases /\ [old EXCEPT !.data = n].recorded = old.recorded
        /\ [old EXCEPT !.data = n].done = old.done
    BY <2>1 DEF Databases
  <2> QED BY <2>2 DEF old, n
<1> HIDE DEF d
<1>5. d \in Good /\ Database.recorded <= d.recorded /\ Database.done <= d.done
  BY <1>2, <1>3, <1>4 DEF Good, Whole
<1>6. ProcessOK(proc[p], d)
  BY <1>2, <1>5, ProcessGrows DEF SetupInv, DataInv
<1>7. DOMAIN proc' = Processes /\ proc'[p] = proc[p] /\ \A q \in Processes \ {p} : proc'[q] = proc[q]
  BY <1>1 DEF SetupInv, DataInv
<1>8. DataInv'
  BY <1>1, <1>2, <1>5, <1>6, <1>7, CommitData
<1> QED BY <1>1, <1>2, <1>8, AliveMeans, QuietKeeps

\* open_database: an empty file becomes a new database, which nobody else has open.
LEMMA OpensData ==
  ASSUME SetupInv, NEW p \in Processes, NEW conf \in Configs \cup {Absent}, Opens(p, conf) PROVE DataInv'
<1> DEFINE task == [pc |-> "migrate", seen |-> Database.recorded, at |-> 0, conf |-> conf]
<1>1. /\ proc' = [proc EXCEPT ![p] = task]
      /\ IF main = Torn THEN main' = Empty /\ wal' = Absent ELSE UNCHANGED <<main, wal>>
  BY DEF Opens
<1>2. Database \in Good /\ Empty \in Good /\ Database.recorded \in Nat /\ Database.done \in Nat
      /\ Database.recorded * Statements <= Database.done /\ Statements \in Nat
  BY DatabaseIsGood, GoodFields, SetupConstants DEF SetupInv
<1>3. main' \in Good /\ main' # Torn /\ wal' \in Good \cup {Absent} /\ Database' = Database
  <2>1. CASE main = Torn
    BY <1>1, <1>2, <2>1, GoodFields DEF Database
  <2>2. CASE main # Torn
    BY <1>1, <2>2 DEF Database, SetupInv, DataInv
  <2> QED BY <2>1, <2>2
<1>4. 0 \in 0..Statements /\ Database.recorded * Statements + 0 <= Database.done
  BY <1>2, Multiples
<1>5. task \in Migrating /\ task.seen = Database.recorded /\ task.at = 0
  BY <1>2, <1>4 DEF Migrating
<1> HIDE DEF task
<1>6. task.seen <= Database.recorded
  BY <1>2, <1>5
<1>7. ProcessOK(task, Database)
  BY <1>4, <1>5, <1>6, TaskShape DEF ProcessOK
<1>8. DOMAIN proc' = Processes /\ \A q \in Processes : proc'[q] = task \/ proc'[q] = proc[q]
  BY <1>1 DEF SetupInv, DataInv
<1>9. \A q \in Processes : ProcessOK(proc'[q], Database)
  BY <1>7, <1>8 DEF SetupInv, DataInv
<1> QED BY <1>3, <1>8, <1>9 DEF DataInv

\* A process opens the database.
LEMMA StartKeeps == ASSUME SetupInv, NEW p \in Processes, Start(p) PROVE SetupInv'
<1>1. config \in Configs /\ cmd.name # "restore" /\ last' = NoRestore /\ UNCHANGED <<config, secrets, archives, cmd>> /\ Opens(p, config)
  BY DEF Start, Opens, SetupInv, FilesInv
<1>2. DataInv'
  BY <1>1, OpensData
<1>3. FilesInv' /\ RestoreInv' /\ KeptInv'
  BY <1>1 DEF SetupInv, FilesInv, RestoreInv, KeptInv
<1>4. CommandInv'
  BY <1>1 DEF SetupInv, CommandInv
<1> QED BY <1>2, <1>3, <1>4 DEF SetupInv

\* Between commands nothing is claimed of one.
LEMMA PromptOK == ASSUME cmd' = Prompt PROVE CommandInv' /\ RestoreInv' /\ cmd'.name = "prompt"
  BY DEF Prompt, CommandInv, RestoreInv

\* A command that opens the database ends.
LEMMA OpenKeeps == ASSUME SetupInv, OpenCommand PROVE SetupInv'
<1>1. /\ cmd.pc = "open" /\ Opens("cli", cmd.arg) /\ cmd' = Prompt /\ UNCHANGED <<last, config, secrets, archives>>
  BY DEF OpenCommand, Opens
<1>2. cmd.arg \in Configs \cup {Absent} /\ last = NoRestore
  BY <1>1 DEF SetupInv, CommandInv, KeptInv
<1>3. DataInv'
  BY <1>1, <1>2, OpensData, SetupConstants
<1> QED BY <1>1, <1>2, <1>3, PromptOK DEF SetupInv, FilesInv, KeptInv

\* A command is interrupted between two writes.
LEMMA InterruptKeeps == ASSUME SetupInv, Interrupt PROVE SetupInv'
<1>1. cmd' = Prompt /\ UNCHANGED <<config, secrets, archives, main, wal, proc, last>>
  BY DEF Interrupt, files
<1>2. DataInv'
  BY <1>1 DEF SetupInv, DataInv, Database
<1> QED BY <1>1, <1>2, PromptOK DEF SetupInv, FilesInv, KeptInv, Kept

-----------------------------------------------------------------------------
(* Commands about the configuration and the secrets *)

\* The command, after a step, is this one.
Becomes(n, c, a) ==
    cmd'.name = n /\ cmd'.pc = c /\ cmd'.arg = a /\ cmd' = [name |-> cmd'.name, pc |-> cmd'.pc, arg |-> cmd'.arg]

\* What the start of a command changes.
LEMMA BeginMeans ==
  ASSUME NEW n, NEW c, NEW a, Begin(n, c, a)
  PROVE  Becomes(n, c, a) /\ UNCHANGED proc
  BY DEF Begin, Becomes

\* What the next step of a command changes.
LEMMA ContinueMeans ==
  ASSUME CommandInv, NEW c, NEW a, (cmd' = [cmd EXCEPT !.pc = c] /\ a = cmd.arg) \/ cmd' = [cmd EXCEPT !.pc = c, !.arg = a]
  PROVE  Becomes(cmd.name, c, a)
<1> DEFINE n == cmd.name b == cmd.arg k == cmd.pc
<1>1. cmd = [name |-> n, pc |-> k, arg |-> b]
  BY DEF CommandInv
<1> HIDE DEF n, b, k
<1>2. CASE cmd' = [cmd EXCEPT !.pc = c] /\ a = cmd.arg
  <2>1. cmd' = [name |-> n, pc |-> c, arg |-> b]
    BY <1>1, <1>2
  <2> QED BY <1>2, <2>1 DEF Becomes, n, b
<1>3. CASE cmd' = [cmd EXCEPT !.pc = c, !.arg = a]
  <2>1. cmd' = [name |-> n, pc |-> c, arg |-> a]
    BY <1>1, <1>3
  <2> QED BY <2>1 DEF Becomes, n
<1> QED BY <1>2, <1>3

\* A step that writes configuration or secrets only.
LEMMA FileStepKeeps ==
  ASSUME SetupInv, UNCHANGED <<main, wal, archives, proc>>, last' = NoRestore, cmd'.name # "restore",
         config' \in Configs \cup {Torn}, secrets' \in Dirs \cup {Absent}, CommandInv'
  PROVE  SetupInv'
<1>1. DataInv'
  BY DEF SetupInv, DataInv, Database
<1>2. FilesInv'
  BY DEF SetupInv, FilesInv
<1>3. RestoreInv' /\ KeptInv'
  BY DEF RestoreInv, KeptInv
<1> QED BY <1>1, <1>2, <1>3 DEF SetupInv

\* A configuration with other servers is a configuration.
LEMMA ConfigServers ==
  ASSUME NEW c \in Configs, NEW a \in SUBSET Servers, NEW b \in SUBSET Servers
  PROVE  [c EXCEPT !.servers = a, !.refs = b] \in Configs
  BY DEF Configs

\* vpn-pulse server add and remove.
LEMMA ServerKeeps ==
  ASSUME SetupInv, NEW s \in Servers, ServerRemove(s) \/ \E ref \in BOOLEAN : ServerAdd(s, ref) PROVE SetupInv'
<1>1. config \in Configs
  BY DEF SetupInv, FilesInv, ServerAdd, ServerRemove, BeginLoaded
<1>2. PICK c : Begin("server", "open", c) /\ c \in Configs /\ config' = c /\ last' = NoRestore
               /\ UNCHANGED <<secrets, main, wal, archives>>
  <2>1. config.servers \in SUBSET Servers /\ config.refs \in SUBSET Servers
    BY <1>1 DEF Configs
  <2>2. CASE ServerRemove(s)
    <3>1. config.servers \ {s} \in SUBSET Servers /\ config.refs \ {s} \in SUBSET Servers
      BY <2>1
    <3>2. [config EXCEPT !.servers = @ \ {s}, !.refs = @ \ {s}] \in Configs
      BY <1>1, <3>1, ConfigServers
    <3> QED BY <2>2, <3>2 DEF ServerRemove, BeginLoaded
  <2>3. ASSUME NEW ref \in BOOLEAN, ServerAdd(s, ref)
        PROVE  LET c == [config EXCEPT !.servers = @ \cup {s}, !.refs = IF ref THEN @ \cup {s} ELSE @]
               IN  /\ Begin("server", "open", c) /\ c \in Configs /\ config' = c /\ last' = NoRestore
                   /\ UNCHANGED <<secrets, main, wal, archives>>
    <3>1. config.servers \cup {s} \in SUBSET Servers /\ (IF ref THEN config.refs \cup {s} ELSE config.refs) \in SUBSET Servers
      BY <2>1
    <3>2. [config EXCEPT !.servers = @ \cup {s}, !.refs = IF ref THEN @ \cup {s} ELSE @] \in Configs
      BY <1>1, <3>1, ConfigServers
    <3> QED BY <2>3, <3>2 DEF ServerAdd, BeginLoaded
  <2> QED BY <2>2, <2>3
<1>3. Becomes("server", "open", c) /\ UNCHANGED proc
  BY <1>2, BeginMeans
<1>4. CommandInv'
  BY <1>2, <1>3 DEF CommandInv, Becomes
<1> QED BY <1>2, <1>3, <1>4, FileStepKeeps DEF SetupInv, FilesInv, Becomes

\* vpn-pulse doctor.
LEMMA DoctorKeeps == ASSUME SetupInv, DoctorCommand PROVE SetupInv'
<1>1. Becomes("doctor", "open", Absent) /\ UNCHANGED <<proc, config, secrets, main, wal, archives>> /\ last' = NoRestore
  BY BeginMeans DEF DoctorCommand, BeginLoaded, files
<1>2. CommandInv'
  BY <1>1 DEF CommandInv, Becomes
<1> QED BY <1>1, <1>2, FileStepKeeps DEF SetupInv, FilesInv, Becomes

\* A missing directory of secrets reads as an empty one.
LEMMA SecretsIsDir == ASSUME SetupInv PROVE Secrets \in Dirs
<1>1. Fresh \in Dirs
  BY DEF Fresh, Dirs
<1> QED BY <1>1 DEF SetupInv, FilesInv, Secrets

\* vpn-pulse init.
LEMMA InitKeeps ==
  ASSUME SetupInv, InitToken \/ InitConfig \/ \E telegram \in BOOLEAN : InitBegin(telegram) PROVE SetupInv'
<1>1. ASSUME NEW telegram \in BOOLEAN, InitBegin(telegram) PROVE SetupInv'
  <2>1. PICK c \in {"token", "config"} : Begin("init", c, telegram)
    BY <1>1 DEF InitBegin
  <2>2. secrets' \in Dirs /\ last' = NoRestore /\ UNCHANGED <<config, main, wal, archives>>
    <3>1. \A dir \in Dirs : [dir EXCEPT !.token = Torn] \in Dirs
      BY DEF Dirs
    <3> QED BY <1>1, <3>1, SecretsIsDir DEF InitBegin
  <2>3. Becomes("init", c, telegram) /\ UNCHANGED proc
    BY <2>1, BeginMeans
  <2>4. CommandInv'
    BY <2>2, <2>3 DEF CommandInv, Becomes
  <2> QED BY <2>2, <2>3, <2>4, FileStepKeeps DEF SetupInv, FilesInv, Becomes
<1>2. CASE InitToken
  <2>1. cmd.name = "init" /\ cmd.pc = "token" /\ UNCHANGED <<config, main, wal, archives, proc, last>> /\ CommandInv
    BY <1>2 DEF InitToken, At, Continue, SetupInv
  <2>2. last = NoRestore /\ secrets \in Dirs /\ cmd.arg \in BOOLEAN
    BY <2>1 DEF SetupInv, KeptInv, CommandInv
  <2>3. Becomes("init", "config", cmd.arg)
    BY <1>2, <2>1, ContinueMeans DEF InitToken, Continue
  <2>4. secrets' \in Dirs
    BY <1>2, <2>2 DEF InitToken, Dirs
  <2>5. CommandInv'
    BY <2>2, <2>3, <2>4 DEF CommandInv, Becomes
  <2> QED BY <2>1, <2>2, <2>3, <2>4, <2>5, FileStepKeeps DEF SetupInv, FilesInv, Becomes
<1>3. CASE InitConfig
  <2>1. cmd.name = "init" /\ cmd.pc = "config" /\ UNCHANGED <<secrets, main, wal, archives, proc, last>> /\ CommandInv
    BY <1>3 DEF InitConfig, At, SetupInv
  <2>2. last = NoRestore /\ secrets \in Dirs /\ cmd.arg \in BOOLEAN
    BY <2>1 DEF SetupInv, KeptInv, CommandInv
  <2>3. Becomes("init", "open", Absent)
    BY <1>3, <2>1, ContinueMeans DEF InitConfig
  <2>4. config' \in Configs
    BY <1>3, <2>2 DEF InitConfig, Blank, Configs
  <2>5. CommandInv'
    BY <2>1, <2>2, <2>3 DEF CommandInv, Becomes
  <2> QED BY <2>1, <2>2, <2>3, <2>4, <2>5, FileStepKeeps DEF SetupInv, FilesInv, Becomes
<1> QED BY <1>1, <1>2, <1>3

\* vpn-pulse collector keygen starts.
LEMMA KeygenBegins ==
  ASSUME SetupInv, NEW s \in Servers, NEW force \in BOOLEAN, KeygenBegin(s, force) PROVE SetupInv'
<1>1. /\ Begin("keygen", "key", s) /\ last' = NoRestore /\ UNCHANGED <<config, main, wal, archives>>
      /\ config \in Configs /\ Secrets.map # Torn
  BY DEF KeygenBegin, BeginLoaded, SetupInv, FilesInv
<1>2. Becomes("keygen", "key", s) /\ UNCHANGED proc
  BY <1>1, BeginMeans
<1> DEFINE dir == Secrets keys == Secrets.keys \ {s}
<1>3. dir \in Dirs /\ keys \in SUBSET Servers
  BY SecretsIsDir DEF Dirs
<1>4. secrets' = [dir EXCEPT !.keys = keys] /\ dir.map # Torn
  BY <1>1 DEF KeygenBegin
<1> HIDE DEF dir, keys
<1>5. secrets' \in Dirs /\ secrets'.map # Torn
  BY <1>3, <1>4 DEF Dirs
<1>6. CommandInv'
  BY <1>1, <1>2, <1>5 DEF CommandInv, Becomes
<1> QED BY <1>1, <1>2, <1>5, <1>6, FileStepKeeps DEF SetupInv, FilesInv, Becomes

\* What a running keygen finds.
LEMMA KeygenMeans ==
  ASSUME SetupInv, cmd.name = "keygen"
  PROVE  /\ CommandInv /\ last = NoRestore /\ config \in Configs /\ secrets \in Dirs
         /\ cmd.pc \in {"key", "map"} => cmd.arg \in Servers /\ secrets.map # Torn
         /\ cmd.pc \in {"entry", "config"} => cmd.arg \in Servers \X (SUBSET Servers)
  BY DEF SetupInv, KeptInv, CommandInv

\* ... has its key, ...
LEMMA KeygenKeyKeeps == ASSUME SetupInv, KeygenKey PROVE SetupInv'
<1>1. cmd.name = "keygen" /\ cmd.pc = "key" /\ UNCHANGED <<config, main, wal, archives, proc, last>>
  BY DEF KeygenKey, At, Continue
<1>2. CommandInv /\ last = NoRestore /\ config \in Configs /\ secrets \in Dirs /\ cmd.arg \in Servers /\ secrets.map # Torn
  BY <1>1, KeygenMeans
<1>3. Becomes("keygen", "map", cmd.arg)
  BY <1>1, <1>2, ContinueMeans DEF KeygenKey, Continue
<1> DEFINE keys == secrets.keys \cup {cmd.arg}
<1>4. keys \in SUBSET Servers /\ secrets' = [secrets EXCEPT !.keys = keys]
  BY <1>2 DEF KeygenKey, Dirs
<1> HIDE DEF keys
<1>5. secrets' \in Dirs /\ secrets'.map # Torn
  BY <1>2, <1>4 DEF Dirs
<1>6. CommandInv'
  BY <1>1, <1>2, <1>3, <1>5 DEF CommandInv, Becomes
<1> QED BY <1>1, <1>2, <1>3, <1>5, <1>6, FileStepKeeps DEF Becomes

\* ... truncates the map, ...
LEMMA KeygenTruncateKeeps == ASSUME SetupInv, KeygenTruncate PROVE SetupInv'
<1>1. cmd.name = "keygen" /\ cmd.pc = "map" /\ UNCHANGED <<config, main, wal, archives, proc, last>>
  BY DEF KeygenTruncate, At
<1>2. CommandInv /\ last = NoRestore /\ config \in Configs /\ secrets \in Dirs /\ cmd.arg \in Servers /\ secrets.map # Torn
  BY <1>1, KeygenMeans
<1> DEFINE pair == <<cmd.arg, Entries(secrets.map)>>
<1>3. Becomes("keygen", "entry", pair)
  BY <1>1, <1>2, ContinueMeans DEF KeygenTruncate
<1>4. Entries(secrets.map) \in SUBSET Servers
  BY <1>2 DEF Entries, Dirs
<1>5. pair \in Servers \X (SUBSET Servers)
  BY <1>2, <1>4
<1>6. secrets' \in Dirs
  BY <1>2 DEF KeygenTruncate, Dirs
<1> HIDE DEF pair
<1>7. CommandInv'
  BY <1>1, <1>2, <1>3, <1>5, <1>6 DEF CommandInv, Becomes
<1> QED BY <1>1, <1>2, <1>3, <1>6, <1>7, FileStepKeeps DEF Becomes

\* ... writes it with the new entry, ...
LEMMA KeygenEntryKeeps == ASSUME SetupInv, KeygenEntry PROVE SetupInv'
<1>1. cmd.name = "keygen" /\ cmd.pc = "entry" /\ UNCHANGED <<config, main, wal, archives, proc, last>>
  BY DEF KeygenEntry, At, Continue
<1>2. CommandInv /\ last = NoRestore /\ config \in Configs /\ secrets \in Dirs /\ cmd.arg \in Servers \X (SUBSET Servers)
  BY <1>1, KeygenMeans
<1>3. Becomes("keygen", "config", cmd.arg)
  BY <1>1, <1>2, ContinueMeans DEF KeygenEntry, Continue
<1> DEFINE map == cmd.arg[2] \cup {cmd.arg[1]}
<1>4. map \in SUBSET Servers /\ secrets' = [secrets EXCEPT !.map = map]
  BY <1>2 DEF KeygenEntry
<1> HIDE DEF map
<1>5. secrets' \in Dirs
  BY <1>2, <1>4 DEF Dirs
<1>6. CommandInv'
  BY <1>1, <1>2, <1>3, <1>5 DEF CommandInv, Becomes
<1> QED BY <1>1, <1>2, <1>3, <1>5, <1>6, FileStepKeeps DEF Becomes

\* ... and fails, or names the map in the configuration.
LEMMA KeygenEndsKeep == ASSUME SetupInv, KeygenFails \/ KeygenConfig PROVE SetupInv'
<1>1. cmd.name = "keygen" /\ cmd' = Prompt /\ UNCHANGED <<secrets, main, wal, archives, proc, last>>
  BY DEF KeygenFails, KeygenConfig, At, End, files
<1>2. last = NoRestore /\ config \in Configs /\ secrets \in Dirs
  BY <1>1, KeygenMeans
<1>3. config' \in Configs
  <2>1. CASE KeygenFails
    BY <1>2, <2>1 DEF KeygenFails, files
  <2>2. CASE KeygenConfig
    <3>1. cmd.arg \in Servers \X (SUBSET Servers)
      BY <1>1, <2>2, KeygenMeans DEF KeygenConfig, At
    <3> DEFINE refs == config.refs \cup {cmd.arg[1]}
    <3>2. refs \in SUBSET Servers /\ config' = [config EXCEPT !.refs = refs, !.map = TRUE]
      BY <1>2, <2>2, <3>1 DEF KeygenConfig, Configs
    <3> HIDE DEF refs
    <3> QED BY <1>2, <3>2 DEF Configs
  <2> QED BY <2>1, <2>2
<1> QED BY <1>1, <1>2, <1>3, PromptOK, FileStepKeeps

\* vpn-pulse collector pin.
LEMMA PinKeeps == ASSUME SetupInv, PinWrite \/ \E s \in Servers : PinBegin(s) PROVE SetupInv'
<1>1. ASSUME NEW s \in Servers, PinBegin(s) PROVE SetupInv'
  <2>1. Begin("pin", "write", s) /\ last' = NoRestore /\ UNCHANGED <<config, main, wal, archives>> /\ Entry(s)
    BY <1>1 DEF PinBegin, BeginLoaded
  <2>2. secrets \in Dirs
    <3>1. secrets # Absent
      <4>1. Entries(Fresh.map) = {}
        BY DEF Fresh, Entries
      <4> QED BY <2>1, <4>1 DEF Entry, Secrets, Collectors
    <3> QED BY <3>1 DEF SetupInv, FilesInv
  <2> DEFINE pins == secrets.pins \ {s}
  <2>3. pins \in SUBSET Servers /\ secrets' = [secrets EXCEPT !.pins = pins]
    BY <1>1, <2>2 DEF PinBegin, Dirs
  <2> HIDE DEF pins
  <2>4. secrets' \in Dirs
    BY <2>2, <2>3 DEF Dirs
  <2>5. Becomes("pin", "write", s) /\ UNCHANGED proc
    BY <2>1, BeginMeans
  <2>6. CommandInv'
    BY <2>4, <2>5 DEF CommandInv, Becomes
  <2> QED BY <2>1, <2>4, <2>5, <2>6, FileStepKeeps DEF SetupInv, FilesInv, Becomes
<1>2. CASE PinWrite
  <2>1. cmd.name = "pin" /\ cmd' = Prompt /\ UNCHANGED <<config, main, wal, archives, proc, last>>
    BY <1>2 DEF PinWrite, At, End
  <2>2. last = NoRestore /\ secrets \in Dirs /\ cmd.arg \in Servers
    BY <2>1 DEF SetupInv, KeptInv, CommandInv
  <2> DEFINE pins == secrets.pins \cup {cmd.arg}
  <2>3. pins \in SUBSET Servers /\ secrets' = [secrets EXCEPT !.pins = pins]
    BY <1>2, <2>2 DEF PinWrite, Dirs
  <2> HIDE DEF pins
  <2>4. secrets' \in Dirs
    BY <2>2, <2>3 DEF Dirs
  <2> QED BY <2>1, <2>2, <2>4, PromptOK, FileStepKeeps DEF SetupInv, FilesInv
<1> QED BY <1>1, <1>2

-----------------------------------------------------------------------------
(* backup *)

\* If there was an archive to restore, there is one after the step.
Remains == (\E i \in DOMAIN archives : archives[i].whole) => (\E i \in DOMAIN archives' : archives'[i].whole)

\* A step that writes archives only.
LEMMA BackupStepKeeps ==
  ASSUME SetupInv, UNCHANGED <<config, secrets, main, wal, proc>>, last' = NoRestore, cmd'.name # "restore",
         archives' \in Seq(Archives), CommandInv'
  PROVE  SetupInv'
<1>1. DataInv'
  BY DEF SetupInv, DataInv, Database
<1>2. FilesInv' /\ RestoreInv' /\ KeptInv'
  BY DEF SetupInv, FilesInv, RestoreInv, KeptInv
<1> QED BY <1>1, <1>2 DEF SetupInv

\* The parts of a whole archive.
LEMMA WholesAre == ASSUME NEW a \in Wholes
  PROVE a.whole = TRUE /\ a.config \in Configs /\ a.secrets \in Dirs \cup {Absent} /\ a.db \in Good /\ a.seen = a.db
  BY DEF Wholes

\* A backup starts: a partial archive is added.
LEMMA BackupBeginKeeps == ASSUME SetupInv, BackupBegin PROVE SetupInv' /\ Remains
<1> DEFINE a == Staged(Database)
<1>1. /\ Begin("backup", "tar", a) /\ last' = NoRestore /\ archives' = Append(archives, Partial)
      /\ UNCHANGED <<config, secrets, main, wal>> /\ config \in Configs
  BY DEF BackupBegin, BeginLoaded, SetupInv, FilesInv
<1>2. Database \in Good /\ secrets \in Dirs \cup {Absent} /\ archives \in Seq(Archives)
  BY DatabaseIsGood DEF SetupInv, FilesInv
<1>3. a \in Wholes
  BY <1>1, <1>2 DEF Staged, SecretRoots, Wholes
<1>4. Becomes("backup", "tar", a) /\ UNCHANGED proc
  BY <1>1, BeginMeans
<1>5. archives' \in Seq(Archives) /\ archives' # <<>>
  BY <1>1, <1>2 DEF Archives
<1> HIDE DEF a
<1>6. CommandInv'
  BY <1>3, <1>4, <1>5 DEF CommandInv, Becomes
<1>7. \A i \in DOMAIN archives : i \in DOMAIN archives' /\ archives'[i] = archives[i]
  BY <1>1, <1>2
<1>8. Remains
  BY <1>7 DEF Remains
<1> QED BY <1>1, <1>4, <1>5, <1>6, <1>8, BackupStepKeeps DEF Becomes

\* While a backup is made its staging directory is whole.
LEMMA BackupMeans ==
  ASSUME SetupInv, cmd.name = "backup"
  PROVE  /\ CommandInv /\ last = NoRestore /\ cmd.arg \in Wholes /\ archives \in Seq(Archives) /\ archives # <<>>
         /\ cmd.pc = "prune" => archives[Len(archives)] \in Wholes
  BY DEF SetupInv, FilesInv, KeptInv, CommandInv

\* The archive is written: it is whole.
LEMMA BackupTarKeeps == ASSUME SetupInv, BackupTar PROVE SetupInv' /\ Remains
<1>1. /\ cmd.name = "backup" /\ cmd.pc = "tar" /\ archives' = [archives EXCEPT ![Len(archives)] = cmd.arg]
      /\ UNCHANGED <<config, secrets, main, wal, proc, last>>
  BY DEF BackupTar, At, Continue
<1>2. CommandInv /\ last = NoRestore /\ cmd.arg \in Wholes /\ archives \in Seq(Archives) /\ archives # <<>>
  BY <1>1, BackupMeans
<1>3. Becomes("backup", "prune", cmd.arg)
  BY <1>1, <1>2, ContinueMeans DEF BackupTar, Continue
<1>4. /\ archives' \in Seq(Archives) /\ archives' # <<>> /\ Len(archives') \in DOMAIN archives'
      /\ archives'[Len(archives')] = cmd.arg
  BY <1>1, <1>2 DEF Archives
<1>5. CommandInv'
  BY <1>2, <1>3, <1>4 DEF CommandInv, Becomes
<1>6. Remains
  BY <1>2, <1>4, WholesAre DEF Remains
<1> QED BY <1>1, <1>2, <1>3, <1>4, <1>5, <1>6, BackupStepKeeps DEF Becomes

\* Older archives are removed: the newest, which stays, is whole.
LEMMA BackupPruneKeeps == ASSUME SetupInv, BackupPrune PROVE SetupInv' /\ Remains
<1> DEFINE n == Len(archives) kept == SubSeq(archives, n - Keep + 1, n)
<1>1. /\ cmd.name = "backup" /\ cmd.pc = "prune" /\ cmd' = Prompt
      /\ archives' = IF n > Keep THEN kept ELSE archives
      /\ UNCHANGED <<config, secrets, main, wal, proc, last>>
  BY DEF BackupPrune, At, End
<1>2. last = NoRestore /\ archives \in Seq(Archives) /\ archives # <<>> /\ archives[n] \in Wholes
  BY <1>1, BackupMeans
<1>3. n \in Nat /\ n >= 1 /\ Keep \in Nat /\ Keep >= 1
  BY <1>2, SetupConstants
<1>4. CASE n > Keep
  <2>1. kept \in Seq(Archives) /\ Len(kept) = Keep /\ Keep \in DOMAIN kept /\ kept[Keep] = archives[n]
    BY <1>2, <1>3, <1>4
  <2>2. archives' \in Seq(Archives) /\ Remains
    BY <1>1, <1>2, <1>4, <2>1, WholesAre DEF Remains
  <2> QED BY <1>1, <1>2, <2>2, PromptOK, BackupStepKeeps
<1>5. CASE ~(n > Keep)
  <2>1. archives' = archives
    BY <1>1, <1>5
  <2> QED BY <1>1, <1>2, <2>1, PromptOK, BackupStepKeeps DEF Remains
<1> QED BY <1>4, <1>5

-----------------------------------------------------------------------------
(* restore *)

\* While it runs every process is down, and its command is one that needs nothing else.
LEMMA RestoringKeeps ==
  ASSUME SetupInv, NEW c, NEW a, Becomes("restore", c, a), c # "open", UNCHANGED <<wal, archives, proc>>,
         \A p \in Processes : proc[p] = Down,
         main' \in Good \cup {Torn}, config' \in Configs \cup {Torn}, secrets' \in Dirs \cup {Absent},
         RestoreInv', Kept'
  PROVE  SetupInv'
<1>1. DOMAIN proc' = Processes /\ \A p \in Processes : proc'[p] = Down /\ ProcessOK(proc'[p], Database')
  BY DownIsOK DEF SetupInv, DataInv
<1>2. DataInv'
  BY <1>1 DEF SetupInv, DataInv
<1>3. FilesInv'
  BY DEF SetupInv, FilesInv
<1>4. CommandInv'
  BY DEF CommandInv, Becomes
<1>5. KeptInv'
  BY <1>1 DEF KeptInv, Becomes
<1> QED BY <1>2, <1>3, <1>4, <1>5 DEF SetupInv

\* A restore starts from a verified archive.
LEMMA RestoreBeginKeeps == ASSUME SetupInv, NEW i \in DOMAIN archives, RestoreBegin(i) PROVE SetupInv'
<1> DEFINE a == archives[i]
<1>1. /\ Begin("restore", "config", a) /\ a.whole /\ (\A p \in Processes : proc[p] = Down)
      /\ last' = [old |-> [config |-> config, secrets |-> secrets, db |-> main],
                  bak |-> [config |-> config, secrets |-> Absent, db |-> Absent], clean |-> wal = Absent]
      /\ config' = Torn /\ UNCHANGED <<secrets, main, wal, archives>>
  BY DEF RestoreBegin, BeginLoaded, Verified
<1>2. a \in Wholes
  <2>1. a \in Archives /\ Partial.whole = FALSE
    BY DEF SetupInv, FilesInv, Partial
  <2> QED BY <1>1, <2>1 DEF Archives
<1> HIDE DEF a
<1>3. Becomes("restore", "config", a) /\ UNCHANGED proc
  BY <1>1, BeginMeans
<1>4. /\ last' = [old |-> last'.old, bak |-> last'.bak, clean |-> last'.clean]
      /\ last'.bak = [config |-> last'.bak.config, secrets |-> last'.bak.secrets, db |-> last'.bak.db]
      /\ last'.bak.config = config /\ last'.old.config = config /\ last'.old.secrets = secrets /\ last'.old.db = main
      /\ (last'.clean <=> wal = Absent)
  BY <1>1
<1>5. RestoreInv'
  BY <1>1, <1>2, <1>3, <1>4 DEF RestoreInv, Becomes
<1>6. Kept'
  BY <1>1, <1>4 DEF Kept
<1> QED BY <1>1, <1>3, <1>5, <1>6, RestoringKeeps DEF SetupInv, DataInv, FilesInv

\* What a step of a restore changes.
LEMMA RestoreStepMeans ==
  ASSUME SetupInv, NEW from, NEW to, NEW copied, RestoreStep(from, to, copied)
  PROVE  /\ cmd.name = "restore" /\ cmd.pc = from /\ Becomes("restore", to, cmd.arg) /\ UNCHANGED <<archives, proc>>
         /\ last'.old = last.old /\ last'.bak = copied /\ last'.clean = last.clean
         /\ last' = [old |-> last'.old, bak |-> last'.bak, clean |-> last'.clean]
<1>1. /\ cmd.name = "restore" /\ cmd.pc = from /\ cmd' = [cmd EXCEPT !.pc = to]
      /\ last' = [last EXCEPT !.bak = copied] /\ UNCHANGED <<archives, proc>>
  BY DEF RestoreStep, At
<1>2. Becomes("restore", to, cmd.arg)
  BY <1>1, ContinueMeans DEF SetupInv
<1> DEFINE old == last.old bak == last.bak clean == last.clean
<1>3. last = [old |-> old, bak |-> bak, clean |-> clean]
  BY <1>1 DEF SetupInv, RestoreInv
<1> HIDE DEF old, bak, clean
<1>4. last' = [old |-> old, bak |-> copied, clean |-> clean]
  BY <1>1, <1>3
<1> QED BY <1>1, <1>2, <1>4 DEF old, clean

\* The invariant of a restore, for the step it is at.
LEMMA RestoringMeans ==
  ASSUME SetupInv, cmd.name = "restore"
  PROVE  /\ cmd.arg \in Wholes /\ (\A p \in Processes : proc[p] = Down) /\ (last.clean <=> wal = Absent)
         /\ last.bak = [config |-> last.bak.config, secrets |-> last.bak.secrets, db |-> last.bak.db]
         /\ last.bak.config = last.old.config
         /\ main \in Good \cup {Torn} /\ config \in Configs \cup {Torn} /\ secrets \in Dirs \cup {Absent}
  BY DEF SetupInv, RestoreInv, DataInv, FilesInv

\* The old configuration is copied and replaced.
LEMMA RestoreConfigKeeps == ASSUME SetupInv, RestoreConfig PROVE SetupInv'
<1>1. RestoreStep("config", "db", last.bak) /\ config' = cmd.arg.config /\ UNCHANGED <<secrets, main, wal>>
  BY DEF RestoreConfig
<1>2. /\ cmd.name = "restore" /\ cmd.pc = "config" /\ Becomes("restore", "db", cmd.arg) /\ UNCHANGED <<archives, proc>>
      /\ last'.old = last.old /\ last'.bak = last.bak /\ last'.clean = last.clean
      /\ last' = [old |-> last'.old, bak |-> last'.bak, clean |-> last'.clean]
  BY <1>1, RestoreStepMeans
<1>3. main = last.old.db /\ secrets = last.old.secrets
  BY <1>2 DEF SetupInv, RestoreInv
<1>4. RestoreInv'
  BY <1>1, <1>2, <1>3, RestoringMeans DEF RestoreInv, Becomes
<1>5. Kept'
  BY <1>1, <1>2, <1>3, RestoringMeans DEF Kept
<1> QED BY <1>1, <1>2, <1>4, <1>5, RestoringKeeps, RestoringMeans, WholesAre

\* The old database is copied and the file truncated.
LEMMA RestoreTruncateKeeps == ASSUME SetupInv, RestoreTruncate PROVE SetupInv'
<1> DEFINE copied == [last.bak EXCEPT !.db = main]
<1>1. RestoreStep("db", "db2", copied) /\ main' = Torn /\ UNCHANGED <<config, secrets, wal>>
  BY DEF RestoreTruncate
<1>2. /\ cmd.name = "restore" /\ cmd.pc = "db" /\ Becomes("restore", "db2", cmd.arg) /\ UNCHANGED <<archives, proc>>
      /\ last'.old = last.old /\ last'.bak = copied /\ last'.clean = last.clean
      /\ last' = [old |-> last'.old, bak |-> last'.bak, clean |-> last'.clean]
  BY <1>1, RestoreStepMeans
<1>3. main = last.old.db /\ secrets = last.old.secrets /\ config = cmd.arg.config
  BY <1>2 DEF SetupInv, RestoreInv
<1>4. /\ copied.config = last.bak.config /\ copied.db = main
      /\ copied = [config |-> copied.config, secrets |-> copied.secrets, db |-> copied.db]
  <2> DEFINE bak == last.bak c == last.bak.config z == last.bak.secrets b == last.bak.db
  <2>1. bak = [config |-> c, secrets |-> z, db |-> b]
    BY <1>2, RestoringMeans
  <2> HIDE DEF bak, c, z, b
  <2>2. [bak EXCEPT !.db = main] = [config |-> c, secrets |-> z, db |-> main]
    BY <2>1
  <2> QED BY <2>1, <2>2 DEF bak
<1> HIDE DEF copied
<1>5. RestoreInv'
  BY <1>1, <1>2, <1>3, <1>4, RestoringMeans DEF RestoreInv, Becomes
<1>6. Kept'
  BY <1>1, <1>2, <1>3, <1>4, RestoringMeans DEF Kept
<1> QED BY <1>1, <1>2, <1>5, <1>6, RestoringKeeps, RestoringMeans

\* The archived database is written.
LEMMA RestoreDatabaseKeeps == ASSUME SetupInv, RestoreDatabase PROVE SetupInv'
<1> DEFINE to == IF cmd.arg.secrets = Absent THEN "restored" ELSE "copytree"
<1>1. RestoreStep("db2", to, last.bak) /\ main' = cmd.arg.db /\ UNCHANGED <<config, secrets, wal>>
  BY DEF RestoreDatabase
<1>2. to \in {"restored", "copytree"} /\ (to = "restored" <=> cmd.arg.secrets = Absent)
  OBVIOUS
<1> HIDE DEF to
<1>3. /\ cmd.name = "restore" /\ cmd.pc = "db2" /\ Becomes("restore", to, cmd.arg) /\ UNCHANGED <<archives, proc>>
      /\ last'.old = last.old /\ last'.bak = last.bak /\ last'.clean = last.clean
      /\ last' = [old |-> last'.old, bak |-> last'.bak, clean |-> last'.clean]
  BY <1>1, RestoreStepMeans
<1>4. last.bak.db = last.old.db /\ secrets = last.old.secrets /\ config = cmd.arg.config
  BY <1>3 DEF SetupInv, RestoreInv
<1>5. RestoreInv'
  BY <1>1, <1>2, <1>3, <1>4, RestoringMeans DEF RestoreInv, Becomes
<1>6. Kept'
  BY <1>1, <1>3, <1>4, RestoringMeans DEF Kept
<1> QED BY <1>1, <1>2, <1>3, <1>5, <1>6, RestoringKeeps, RestoringMeans, WholesAre

\* The old secrets are copied.
LEMMA RestoreCopySecretsKeeps == ASSUME SetupInv, RestoreCopySecrets PROVE SetupInv'
<1> DEFINE copied == [last.bak EXCEPT !.secrets = secrets]
<1>1. RestoreStep("copytree", "rmtree", copied) /\ UNCHANGED <<config, secrets, main, wal>>
  BY DEF RestoreCopySecrets
<1>2. /\ cmd.name = "restore" /\ cmd.pc = "copytree" /\ Becomes("restore", "rmtree", cmd.arg) /\ UNCHANGED <<archives, proc>>
      /\ last'.old = last.old /\ last'.bak = copied /\ last'.clean = last.clean
      /\ last' = [old |-> last'.old, bak |-> last'.bak, clean |-> last'.clean]
  BY <1>1, RestoreStepMeans
<1>3. /\ last.bak.db = last.old.db /\ secrets = last.old.secrets /\ config = cmd.arg.config /\ main = cmd.arg.db
  BY <1>2 DEF SetupInv, RestoreInv
<1>4. /\ copied.config = last.bak.config /\ copied.db = last.bak.db /\ copied.secrets = secrets
      /\ copied = [config |-> copied.config, secrets |-> copied.secrets, db |-> copied.db]
  <2> DEFINE bak == last.bak c == last.bak.config z == last.bak.secrets b == last.bak.db
  <2>1. bak = [config |-> c, secrets |-> z, db |-> b]
    BY <1>2, RestoringMeans
  <2> HIDE DEF bak, c, z, b
  <2>2. [bak EXCEPT !.secrets = secrets] = [config |-> c, secrets |-> secrets, db |-> b]
    BY <2>1
  <2> QED BY <2>1, <2>2 DEF bak
<1> HIDE DEF copied
<1>5. RestoreInv'
  BY <1>1, <1>2, <1>3, <1>4, RestoringMeans DEF RestoreInv, Becomes
<1>6. Kept'
  BY <1>1, <1>2, <1>3, <1>4, RestoringMeans DEF Kept
<1> QED BY <1>1, <1>2, <1>5, <1>6, RestoringKeeps, RestoringMeans

\* The old secrets are removed, with a copy beside them.
LEMMA RestoreRemoveSecretsKeeps == ASSUME SetupInv, RestoreRemoveSecrets PROVE SetupInv'
<1>1. RestoreStep("rmtree", "secrets", last.bak) /\ secrets' = Absent /\ UNCHANGED <<config, main, wal>>
  BY DEF RestoreRemoveSecrets
<1>2. /\ cmd.name = "restore" /\ cmd.pc = "rmtree" /\ Becomes("restore", "secrets", cmd.arg) /\ UNCHANGED <<archives, proc>>
      /\ last'.old = last.old /\ last'.bak = last.bak /\ last'.clean = last.clean
      /\ last' = [old |-> last'.old, bak |-> last'.bak, clean |-> last'.clean]
  BY <1>1, RestoreStepMeans
<1>3. /\ last.bak.db = last.old.db /\ last.bak.secrets = last.old.secrets /\ config = cmd.arg.config
      /\ main = cmd.arg.db
  BY <1>2 DEF SetupInv, RestoreInv
<1>4. RestoreInv'
  BY <1>1, <1>2, <1>3, RestoringMeans DEF RestoreInv, Becomes
<1>5. Kept'
  BY <1>1, <1>2, <1>3, RestoringMeans DEF Kept
<1> QED BY <1>1, <1>2, <1>4, <1>5, RestoringKeeps, RestoringMeans

\* The archived secrets are written.
LEMMA RestoreSecretsKeeps == ASSUME SetupInv, RestoreSecrets PROVE SetupInv'
<1>1. RestoreStep("secrets", "restored", last.bak) /\ secrets' = cmd.arg.secrets /\ UNCHANGED <<config, main, wal>>
  BY DEF RestoreSecrets
<1>2. /\ cmd.name = "restore" /\ cmd.pc = "secrets" /\ Becomes("restore", "restored", cmd.arg) /\ UNCHANGED <<archives, proc>>
      /\ last'.old = last.old /\ last'.bak = last.bak /\ last'.clean = last.clean
      /\ last' = [old |-> last'.old, bak |-> last'.bak, clean |-> last'.clean]
  BY <1>1, RestoreStepMeans
<1>3. /\ last.bak.db = last.old.db /\ last.bak.secrets = last.old.secrets /\ config = cmd.arg.config
      /\ main = cmd.arg.db
  BY <1>2 DEF SetupInv, RestoreInv
<1>4. RestoreInv'
  BY <1>1, <1>2, <1>3, RestoringMeans DEF RestoreInv, Becomes
<1>5. Kept'
  BY <1>1, <1>2, <1>3, RestoringMeans DEF Kept
<1> QED BY <1>1, <1>2, <1>4, <1>5, RestoringKeeps, RestoringMeans, WholesAre

\* The restore reports what it did.
LEMMA RestoreEndKeeps == ASSUME SetupInv, RestoreEnd PROVE SetupInv'
<1>1. cmd' = Prompt /\ UNCHANGED <<config, secrets, archives, main, wal, proc, last>>
  BY DEF RestoreEnd, End, files
<1>2. DataInv'
  BY <1>1 DEF SetupInv, DataInv, Database
<1> QED BY <1>1, <1>2, PromptOK DEF SetupInv, FilesInv, KeptInv, Kept

-----------------------------------------------------------------------------
(* The installation *)

\* The invariant holds at first.
LEMMA InitSetup == Init => SetupInv
<1> SUFFICES ASSUME Init PROVE SetupInv
  OBVIOUS
<1>1. main \in Good
  <2> DEFINE v == Version - 1
  <2>1. v \in Nat /\ v < Version /\ Statements \in Nat /\ v * Statements \in Nat /\ (v + 1) * Statements = v * Statements + Statements
    BY SetupConstants, Multiples
  <2>2. main \in Databases /\ main.recorded = v /\ main.done = v * Statements
    BY <2>1 DEF Init, Databases
  <2> HIDE DEF v
  <2>3. Whole(main)
    BY <2>1, <2>2, SetupConstants DEF Whole
  <2> QED BY <2>2, <2>3 DEF Good
<1>2. DataInv
  BY <1>1, DownIsOK, GoodFields DEF Init, DataInv
<1>3. FilesInv
  <2>1. Fresh \in Dirs
    BY DEF Fresh, Dirs
  <2>2. Blank(FALSE) \in Configs
    BY DEF Blank, Configs
  <2>3. archives \in Seq(Archives)
    BY DEF Init
  <2> QED BY <2>1, <2>2, <2>3 DEF Init, FilesInv
<1>4. CommandInv /\ RestoreInv
  BY DEF Init, Prompt, CommandInv, RestoreInv
<1>5. KeptInv
  BY DEF Init, Prompt, KeptInv
<1> QED BY <1>2, <1>3, <1>4, <1>5 DEF SetupInv

\* Every step of a command keeps the invariant.
LEMMA CommandKeeps == ASSUME SetupInv, Command PROVE SetupInv'
<1>1. ASSUME NEW s \in Servers, ServerRemove(s) \/ PinBegin(s) \/ (\E ref \in BOOLEAN : ServerAdd(s, ref))
                                \/ \E force \in BOOLEAN : KeygenBegin(s, force)
      PROVE  SetupInv'
  BY <1>1, ServerKeeps, PinKeeps, KeygenBegins
<1>2. CASE InitToken \/ InitConfig \/ \E telegram \in BOOLEAN : InitBegin(telegram)
  BY <1>2, InitKeeps
<1>3. CASE DoctorCommand \/ OpenCommand \/ PinWrite
  BY <1>3, DoctorKeeps, OpenKeeps, PinKeeps
<1>4. CASE KeygenKey \/ KeygenFails \/ KeygenTruncate \/ KeygenEntry \/ KeygenConfig
  BY <1>4, KeygenKeyKeeps, KeygenTruncateKeeps, KeygenEntryKeeps, KeygenEndsKeep
<1>5. CASE BackupBegin \/ BackupTar \/ BackupPrune
  BY <1>5, BackupBeginKeeps, BackupTarKeeps, BackupPruneKeeps
<1>6. CASE (\E i \in DOMAIN archives : RestoreBegin(i)) \/ RestoreConfig \/ RestoreTruncate \/ RestoreDatabase
  BY <1>6, RestoreBeginKeeps, RestoreConfigKeeps, RestoreTruncateKeeps, RestoreDatabaseKeeps
<1>7. CASE RestoreCopySecrets \/ RestoreRemoveSecrets \/ RestoreSecrets \/ RestoreEnd
  BY <1>7, RestoreCopySecretsKeeps, RestoreRemoveSecretsKeeps, RestoreSecretsKeeps, RestoreEndKeeps
<1> QED BY <1>1, <1>2, <1>3, <1>4, <1>5, <1>6, <1>7 DEF Command

\* So does every step.
LEMMA StepKeeps == ASSUME SetupInv, [Next]_vars PROVE SetupInv'
<1>1. CASE Command
  BY <1>1, CommandKeeps
<1>2. CASE Interrupt
  BY <1>2, InterruptKeeps
<1>3. ASSUME NEW p \in Processes, Service(p) PROVE SetupInv'
  BY <1>3, StartKeeps, MigrateKeeps, RecordKeeps, ServeKeeps, WriteKeeps, StopKeeps, KillKeeps DEF Service
<1>4. CASE UNCHANGED vars
  <2>1. DataInv' /\ FilesInv'
    BY <1>4 DEF vars, SetupInv, DataInv, FilesInv, Database
  <2>2. CommandInv'
    BY <1>4 DEF vars, SetupInv, CommandInv
  <2>3. RestoreInv' /\ KeptInv'
    BY <1>4 DEF vars, SetupInv, RestoreInv, KeptInv, Kept
  <2> QED BY <2>1, <2>2, <2>3 DEF SetupInv
<1> QED BY <1>1, <1>2, <1>3, <1>4 DEF Next

\* The inductive invariant of the files, the processes and the running command.
THEOREM SetupSafe == Spec => []SetupInv
  BY InitSetup, StepKeeps, PTL DEF Spec

\* A service that is up has every statement of every migration, and its row.
THEOREM WholeSchema == Spec => []ServesWholeSchema
<1>1. SetupInv => ServesWholeSchema
  <2> SUFFICES ASSUME SetupInv, NEW p \in Processes, proc[p].pc = "up"
               PROVE  Database.recorded = Version /\ Database.done = Version * Statements
    BY DEF ServesWholeSchema
  <2>1. ProcessOK(proc[p], Database) /\ Database \in Good
    BY DatabaseIsGood DEF SetupInv, DataInv
  <2>2. proc[p] = Working
    BY <2>1, TaskShape DEF ProcessOK, Down
  <2> QED BY <2>1, <2>2, GoodFields DEF ProcessOK
<1> QED BY <1>1, SetupSafe, PTL

\* An in-place restore leaves what it replaces, in its place or as a copy.
THEOREM RestoreLosesNothing == Spec => []NothingIsLost
<1>1. SetupInv => NothingIsLost
  BY DEF SetupInv, KeptInv, Kept, NothingIsLost
<1> QED BY <1>1, SetupSafe, PTL

\* After a clean stop a restore brings back what the backup saw.
THEOREM CleanRestoreIsExact == Spec => []CleanRestoreIsTheArchive
<1>1. SetupInv => CleanRestoreIsTheArchive
  <2> SUFFICES ASSUME SetupInv, cmd.name = "restore", cmd.pc = "restored", last.clean PROVE Restored
    BY DEF CleanRestoreIsTheArchive, At
  <2>1. /\ cmd.arg \in Wholes /\ wal = Absent /\ config = cmd.arg.config /\ main = cmd.arg.db
        /\ (cmd.arg.secrets # Absent => secrets = cmd.arg.secrets)
    BY DEF SetupInv, RestoreInv
  <2>2. cmd.arg.seen = cmd.arg.db /\ cmd.arg.db # Torn
    BY <2>1, WholesAre, GoodFields
  <2> QED BY <2>1, <2>2 DEF Restored, Database
<1> QED BY <1>1, SetupSafe, PTL

\* Wherever a backup is interrupted, an archive that can be restored stays.
THEOREM ArchiveRemains == Spec => AnArchiveRemains
<1>1. ASSUME SetupInv, [Next]_vars PROVE [Remains]_vars
  <2>1. CASE BackupBegin \/ BackupTar \/ BackupPrune
    BY <1>1, <2>1, BackupBeginKeeps, BackupTarKeeps, BackupPruneKeeps
  <2>2. CASE archives' = archives
    BY <2>2 DEF Remains
  <2>3. CASE Command
    <3>1. BackupBegin \/ BackupTar \/ BackupPrune \/ archives' = archives
      BY <2>3 DEF Command, ServerAdd, ServerRemove, PinBegin, KeygenBegin, InitBegin, DoctorCommand, OpenCommand,
           Opens, InitToken, InitConfig, PinWrite, KeygenKey, KeygenFails, KeygenTruncate, KeygenEntry, KeygenConfig,
           RestoreBegin, RestoreConfig, RestoreTruncate, RestoreDatabase, RestoreCopySecrets, RestoreRemoveSecrets,
           RestoreSecrets, RestoreEnd, RestoreStep, files
    <3> QED BY <2>1, <2>2, <3>1
  <2>4. CASE Interrupt \/ \E p \in Processes : Service(p)
    <3>1. archives' = archives
      BY <2>4 DEF Interrupt, Service, Start, Opens, Migrate, Record, Serve, Write, Stop, Kill, Commits, Leaves, files
    <3> QED BY <2>2, <3>1
  <2> QED BY <1>1, <2>3, <2>4 DEF Next
<1> QED BY <1>1, SetupSafe, PTL DEF Spec, AnArchiveRemains, Remains

\* When the doctor has nothing to say run starts, but for the two cases it does not
\* look for, in which run refuses; and every collector can be tested.
THEOREM DoctorIsRight == Spec => []DoctorForesees
<1>1. ASSUME NEW https \in HttpsCheck, DoctorResult(https) = "ok"
      PROVE  /\ Ready("run", config) <=> ~DoctorOverlooks
             /\ Ready("api", config)
             /\ config.map /\ ~DoctorOverlooks => \A s \in config.servers : Testable(s)
  <2>1. Findings = {}
    BY <1>1 DEF DoctorResult
  <2>2. CollectorsFindings = {} /\ TelegramReady(config)
    BY <2>1 DEF Findings
  <2> DEFINE found == Collectors(config, Secrets.map)
  <2>3. ASSUME config.map, ~DoctorOverlooks
        PROVE  /\ Secrets.map # Absent /\ Secrets.map # Torn
               /\ found \subseteq config.servers /\ Unreferenced(config, Secrets.map) = {}
               /\ found \subseteq Secrets.keys \cap Secrets.pins
    <3>1. CASE config.servers = {}
      BY <2>3, <3>1 DEF DoctorOverlooks, Collectors, Unreferenced
    <3>2. CASE config.servers # {}
      BY <2>2, <2>3, <3>2 DEF CollectorsFindings, DoctorOverlooks, Collectors
    <3> QED BY <3>1, <3>2
  <2>4. ~DoctorOverlooks => CollectorsReady(config)
    BY <2>3 DEF CollectorsReady, SecretFileStatus
  <2>5. DoctorOverlooks => ~CollectorsReady(config)
    BY DEF DoctorOverlooks, CollectorsReady, SecretFileStatus
  <2>6. ASSUME config.map, ~DoctorOverlooks, NEW s \in config.servers PROVE Testable(s)
    <3>1. s \in found
      BY <2>3, <2>6 DEF Unreferenced
    <3> QED BY <2>3, <2>6, <3>1 DEF Testable, Entry, Entries
  <2> QED BY <2>2, <2>4, <2>5, <2>6 DEF Ready
<1>2. DoctorForesees
  BY <1>1 DEF DoctorForesees
<1> QED BY <1>2, PTL
=============================================================================
