---------------------------- MODULE AccessProofs -----------------------------
(***************************************************************************)
(* Access implements Tables, lets only members in and bounds every burst,  *)
(* for any sets of users, threads and batches and any limits.              *)
(***************************************************************************)
EXTENDS Access, TLAPS

Stored ==
    [user : Users, role : {"member", "admin"}, expires : 0..(MaxTime + SessionLife),
     status : {"live", "revoked", "swept"}, outage : BOOLEAN]

Notes == {"active", "replaced", "deleted"}

Stores == [sessions : Seq(Stored), notes : Seq(Notes), audit : Nat, events : SUBSET UNION Batches]

\* What the assumption says, in the form the provers use.
LEMMA AccessConstants ==
    /\ None \notin Threads /\ Admins \subseteq Users /\ \A batch \in Batches : batch # {}
    /\ SessionLife \in Nat /\ CacheLife \in Nat /\ Limit \in Nat /\ MaxKeys \in Nat
    /\ SessionLife >= 1 /\ CacheLife >= 1 /\ Limit >= 1
    /\ AskTime \in Nat /\ MaxTime \in Nat
  BY AccessAssumption

-----------------------------------------------------------------------------
(* The operations on the tables *)

\* create_session leaves a table of sessions.
LEMMA SessionStored == ASSUME NEW d \in Stores, NEW s \in Stored PROVE T!WithSession(d, s) \in Stores
<1>1. Append(d.sessions, s) \in Seq(Stored)
  BY DEF Stores
<1> QED BY <1>1 DEF Stores, T!WithSession

\* Ending sessions, by logout or sweep, leaves a table of sessions.
LEMMA EndedStored ==
  ASSUME NEW d \in Stores, NEW ended, NEW status \in {"revoked", "swept"}
  PROVE  T!WithEnded(d, ended, status) \in Stores
<1> DEFINE q == [i \in DOMAIN d.sessions |->
                   IF i \in ended THEN [d.sessions[i] EXCEPT !.status = status] ELSE d.sessions[i]]
<1>1. d.sessions \in Seq(Stored)
  BY DEF Stores
<1>2. ASSUME NEW s \in Stored PROVE [s EXCEPT !.status = status] \in Stored
  BY DEF Stored
<1>3. q \in Seq(Stored)
  BY <1>1, <1>2
<1> HIDE DEF q
<1>4. [d EXCEPT !.sessions = q] \in Stores
  BY <1>3 DEF Stores
<1> QED BY <1>4 DEF T!WithEnded, q

\* Ending the active note touches the notes only.
LEMMA NoNoteStored ==
  ASSUME NEW d \in Stores, NEW status \in {"replaced", "deleted"}
  PROVE  T!WithNoNote(d, status) \in Stores /\ T!WithNoNote(d, status).sessions = d.sessions
<1> DEFINE q == [i \in DOMAIN d.notes |-> IF d.notes[i] = "active" THEN status ELSE d.notes[i]]
<1>1. d.notes \in Seq(Notes)
  BY DEF Stores
<1>2. q \in Seq(Notes)
  BY <1>1 DEF Notes
<1> HIDE DEF q
<1>3. [d EXCEPT !.notes = q] \in Stores /\ [d EXCEPT !.notes = q].sessions = d.sessions
  BY <1>2 DEF Stores
<1> QED BY <1>3 DEF T!WithNoNote, q

\* Inserting a note touches the notes only.
LEMMA NoteStored == ASSUME NEW d \in Stores PROVE T!WithNote(d) \in Stores /\ T!WithNote(d).sessions = d.sessions
<1>1. Append(d.notes, "active") \in Seq(Notes)
  BY DEF Stores, Notes
<1> QED BY <1>1 DEF Stores, T!WithNote

\* Writing the audit entry touches the audit only.
LEMMA AuditStored == ASSUME NEW d \in Stores PROVE T!WithAudit(d) \in Stores /\ T!WithAudit(d).sessions = d.sessions
  BY DEF Stores, T!WithAudit

\* Storing product events touches the events only.
LEMMA EventsStored ==
  ASSUME NEW d \in Stores, NEW ids \in SUBSET UNION Batches
  PROVE  T!WithEvents(d, ids) \in Stores /\ T!WithEvents(d, ids).sessions = d.sessions
  BY DEF Stores, T!WithEvents

\* Events that are stored one after the other are stored together.
LEMMA EventsAdd ==
  ASSUME NEW d \in Stores, NEW ids \in SUBSET UNION Batches, NEW e \in UNION Batches
  PROVE  T!WithEvents(T!WithEvents(d, ids), {e}) = T!WithEvents(d, ids \cup {e})
  BY DEF Stores, T!WithEvents

-----------------------------------------------------------------------------
(* The connection *)

\* What the open transaction of a thread has done so far: the notes are replaced, or
\* the events of a batch that are not left are stored.
Opened(t) ==
    \/ thread[t].pc = "insert" /\ draft = T!WithNoNote(db, "replaced")
    \/ /\ thread[t].pc = "batch"
       /\ \E batch \in Batches : /\ thread[t].left \subseteq batch /\ (batch \ thread[t].left) \cap Invalid = {}
                                 /\ draft = T!WithEvents(db, batch \ thread[t].left)

\* A thread is inside a transaction only if the lock is its own; without one the
\* connection sees what is committed.
ConnectionInv ==
    /\ DOMAIN thread = Threads /\ db \in Stores
    /\ owner = None => draft = db
    /\ owner # None => owner \in Threads /\ Opened(owner)
    /\ \A t \in Threads : /\ thread[t].pc = "insert" => owner = t
                          /\ thread[t].pc = "batch" => owner = t \/ thread[t].left \in Batches

\* Only thread t goes on.
OnlyMoves(t) == DOMAIN thread' = Threads /\ \A u \in Threads \ {t} : thread'[u] = thread[u]

\* A handler's step moves its own thread.
LEMMA BecomeMoves ==
  ASSUME ConnectionInv, NEW t \in Threads, NEW task, Become(t, task)
  PROVE  OnlyMoves(t) /\ thread'[t] = task
  BY DEF Become, OnlyMoves, ConnectionInv

\* A thread that is at no statement of a transaction has the connection to itself.
LEMMA EntersFree ==
  ASSUME ConnectionInv, NEW t \in Threads, thread[t].pc \notin {"insert", "batch"}, Enter(t)
  PROVE  owner = None /\ draft = db
<1>1. owner # t
  BY AccessConstants DEF ConnectionInv, Opened
<1> QED BY <1>1 DEF Enter, ConnectionInv

\* A step outside any transaction leaves the connection as it was.
LEMMA OutsideKeeps ==
  ASSUME ConnectionInv, UNCHANGED tables, NEW t \in Threads, OnlyMoves(t),
         thread[t].pc \notin {"insert", "batch"}, thread'[t].pc # "insert",
         thread'[t].pc = "batch" => thread'[t].left \in Batches
  PROVE  ConnectionInv'
<1>1. owner' = owner /\ draft' = draft /\ db' = db
  BY DEF tables
<1>2. owner # t
  BY AccessConstants DEF ConnectionInv, Opened
<1>3. owner # None => Opened(owner)'
  BY <1>1, <1>2 DEF ConnectionInv, Opened, OnlyMoves
<1> QED BY <1>1, <1>2, <1>3 DEF ConnectionInv, OnlyMoves

\* After a commit or a rollback nobody owns the connection.
LEMMA EndKeeps ==
  ASSUME ConnectionInv, NEW t \in Threads, Enter(t), OnlyMoves(t), thread'[t].pc \notin {"insert", "batch"},
         owner' = None, draft' = db', db' \in Stores
  PROVE  ConnectionInv'
<1>1. ASSUME NEW u \in Threads, u # t
      PROVE  thread'[u].pc # "insert" /\ (thread'[u].pc = "batch" => thread'[u].left \in Batches)
  <2>1. owner # u
    BY <1>1, AccessConstants DEF Enter
  <2> QED BY <1>1, <2>1 DEF ConnectionInv, OnlyMoves
<1> QED BY <1>1 DEF ConnectionInv, OnlyMoves

\* Another process commits only while no transaction is open here.
LEMMA ElsewhereKeeps ==
  ASSUME ConnectionInv, NEW d \in Stores, CommitElsewhere(d), UNCHANGED thread
  PROVE  ConnectionInv'
  BY DEF ConnectionInv, CommitElsewhere

\* put_note opens its transaction: nothing is committed yet.
LEMMA ReplaceKeeps ==
  ASSUME ConnectionInv, NEW t \in Threads, ReplaceNote(t)
  PROVE  ConnectionInv' /\ db' = db
<1>1. /\ owner = None /\ draft = db /\ owner' = t /\ db' = db /\ draft' = T!WithNoNote(draft, "replaced")
      /\ OnlyMoves(t) /\ thread'[t] = [pc |-> "insert"]
  BY EntersFree, BecomeMoves DEF ReplaceNote, Execute
<1>2. Opened(t)' /\ t # None
  BY <1>1, AccessConstants DEF Opened
<1>3. \A u \in Threads \ {t} : thread'[u].pc # "insert" /\ (thread'[u].pc = "batch" => thread'[u].left \in Batches)
  BY <1>1, AccessConstants DEF ConnectionInv, OnlyMoves
<1> QED BY <1>1, <1>2, <1>3 DEF ConnectionInv, OnlyMoves

\* put_note commits: both statements become one step of Tables.
LEMMA InsertKeeps ==
  ASSUME ConnectionInv, NEW t \in Threads, InsertNote(t)
  PROVE  ConnectionInv' /\ T!Next
<1>1. /\ owner = t /\ draft = T!WithNoNote(db, "replaced") /\ owner' = None /\ draft' = T!WithNote(draft) /\ db' = draft'
      /\ OnlyMoves(t) /\ thread'[t] = [pc |-> "audit"] /\ Enter(t)
  BY BecomeMoves, AccessConstants DEF InsertNote, Commit, ConnectionInv, Opened
<1>2. db' \in Stores
  BY <1>1, NoNoteStored, NoteStored DEF ConnectionInv
<1> QED BY <1>1, <1>2, EndKeeps DEF T!Next

\* What a batch has stored when its thread gets the lock, or has it.
LEMMA BatchSoFar ==
  ASSUME ConnectionInv, NEW t \in Threads, thread[t].pc = "batch", Enter(t)
  PROVE  \E batch \in Batches : /\ thread[t].left \subseteq batch /\ (batch \ thread[t].left) \cap Invalid = {}
                                /\ draft = T!WithEvents(db, batch \ thread[t].left)
<1>1. CASE owner = t
  BY <1>1, AccessConstants DEF ConnectionInv, Opened
<1>2. CASE owner = None
  <2>1. thread[t].left \in Batches /\ draft = db /\ db \in Stores
    BY <1>2, AccessConstants DEF ConnectionInv
  <2>2. T!WithEvents(db, {}) = db
    BY <2>1 DEF T!WithEvents, Stores
  <2>3. thread[t].left \ thread[t].left = {}
    OBVIOUS
  <2> QED BY <2>1, <2>2, <2>3
<1> QED BY <1>1, <1>2 DEF Enter

\* accept_batch: an event is inserted, the last one commits, a bad one rolls back.
LEMMA EventKeeps ==
  ASSUME ConnectionInv, NEW t \in Threads, NEW e \in UNION Batches, AcceptEvent(t, e)
  PROVE  ConnectionInv' /\ [T!Next]_db
<1> DEFINE left == thread[t].left
<1>0. thread[t].pc = "batch" /\ e \in left /\ Enter(t)
  BY DEF AcceptEvent, Rollback, Commit, Execute
<1>1. PICK batch \in Batches : /\ left \subseteq batch /\ (batch \ left) \cap Invalid = {}
                               /\ draft = T!WithEvents(db, batch \ left)
  BY <1>0, BatchSoFar
<1>2. CASE e \in Invalid
  <2>1. owner' = None /\ draft' = db /\ db' = db /\ OnlyMoves(t) /\ thread'[t] = Idle
    BY <1>2, BecomeMoves DEF AcceptEvent, Rollback
  <2> QED BY <1>0, <2>1, EndKeeps DEF Idle, ConnectionInv
<1>3. ASSUME e \notin Invalid
      PROVE  /\ T!WithEvents(draft, {e}) = T!WithEvents(db, batch \ (left \ {e}))
             /\ (batch \ (left \ {e})) \cap Invalid = {}
  <2>1. (batch \ left) \cup {e} = batch \ (left \ {e})
    BY <1>0, <1>1
  <2>2. T!WithEvents(draft, {e}) = T!WithEvents(db, (batch \ left) \cup {e})
    BY <1>1, EventsAdd DEF ConnectionInv
  <2> QED BY <1>1, <1>3, <2>1, <2>2
<1>4. CASE e \notin Invalid /\ left = {e}
  <2>1. owner' = None /\ draft' = T!WithEvents(draft, {e}) /\ db' = draft' /\ OnlyMoves(t) /\ thread'[t] = Idle
    BY <1>4, BecomeMoves DEF AcceptEvent, Commit
  <2>2. batch \ (left \ {e}) = batch
    BY <1>4
  <2>3. db' = T!WithEvents(db, batch) /\ batch \cap Invalid = {}
    BY <1>3, <1>4, <2>1, <2>2
  <2>4. db' \in Stores
    BY <2>3, EventsStored DEF ConnectionInv
  <2>5. T!Next
    BY <2>3 DEF T!Next
  <2> QED BY <1>0, <2>1, <2>4, <2>5, EndKeeps DEF Idle
<1>5. CASE e \notin Invalid /\ left # {e}
  <2>1. /\ owner' = t /\ draft' = T!WithEvents(draft, {e}) /\ db' = db
        /\ OnlyMoves(t) /\ thread'[t] = [thread[t] EXCEPT !.left = @ \ {e}]
    BY <1>5, BecomeMoves DEF AcceptEvent, Execute
  <2>2. thread'[t].pc = "batch" /\ thread'[t].left = left \ {e}
    BY <1>0, <2>1
  <2>3. Opened(t)' /\ t # None
    BY <1>1, <1>3, <1>5, <2>1, <2>2, AccessConstants DEF Opened
  <2>4. \A u \in Threads \ {t} : thread'[u].pc # "insert" /\ (thread'[u].pc = "batch" => thread'[u].left \in Batches)
    BY <1>0, <2>1, AccessConstants DEF ConnectionInv, OnlyMoves, Enter
  <2> QED BY <2>1, <2>2, <2>3, <2>4 DEF ConnectionInv, OnlyMoves
<1> QED BY <1>2, <1>4, <1>5

\* The handlers that are one statement.
LEMMA StatementKeeps ==
  ASSUME ConnectionInv, NEW t \in Threads,
         DeleteNote(t) \/ Audit(t) \/ \E i \in DOMAIN draft.sessions : DeleteSession(t, i)
  PROVE  ConnectionInv' /\ T!Next
<1>1. CASE DeleteNote(t)
  <2>1. /\ owner = None /\ draft = db /\ owner' = None /\ db' = T!WithNoNote(db, "deleted") /\ draft' = db'
        /\ OnlyMoves(t) /\ thread'[t] = [pc |-> "audit"] /\ Enter(t)
    BY <1>1, EntersFree, BecomeMoves DEF DeleteNote, Commit
  <2> QED BY <2>1, NoNoteStored, EndKeeps DEF T!Next, ConnectionInv
<1>2. CASE Audit(t)
  <2>1. /\ owner = None /\ draft = db /\ owner' = None /\ db' = T!WithAudit(db) /\ draft' = db'
        /\ OnlyMoves(t) /\ thread'[t] = Idle /\ Enter(t)
    BY <1>2, EntersFree, BecomeMoves DEF Audit, Commit
  <2> QED BY <2>1, AuditStored, EndKeeps DEF T!Next, ConnectionInv, Idle
<1>3. ASSUME NEW i \in DOMAIN draft.sessions, DeleteSession(t, i) PROVE ConnectionInv' /\ T!Next
  <2>1. thread[t] = Idle /\ thread[t].pc = "idle" /\ Enter(t) /\ UNCHANGED thread
    BY <1>3 DEF DeleteSession, Commit, Idle
  <2>2. owner = None /\ draft = db /\ owner' = None /\ db' = T!WithEnded(db, {i}, "revoked") /\ draft' = db'
    BY <1>3, <2>1, EntersFree DEF DeleteSession, Commit
  <2>3. db' \in Stores
    BY <2>2, EndedStored DEF ConnectionInv
  <2>4. OnlyMoves(t)
    BY <2>1 DEF OnlyMoves, ConnectionInv
  <2>5. T!Next
    BY <1>3, <2>2 DEF T!Next
  <2> QED BY <2>1, <2>2, <2>3, <2>4, <2>5, EndKeeps
<1> QED BY <1>1, <1>2, <1>3

\* vpn-pulse note from another process is one step of Tables.
LEMMA CliKeeps == ASSUME ConnectionInv, CliNote PROVE ConnectionInv' /\ T!Next
<1>1. PICK d \in NoteCommand(db) : CommitElsewhere(d)
  BY DEF CliNote
<1>2. d \in Stores /\ db' = d
  BY <1>1, NoNoteStored, NoteStored, AuditStored DEF NoteCommand, ConnectionInv, CommitElsewhere
<1> QED BY <1>1, <1>2, ElsewhereKeeps DEF CliNote, NoteCommand, T!Next

\* The loop's sweep of the sessions is one step of Tables.
LEMMA SweepKeeps == ASSUME ConnectionInv, Sweep PROVE ConnectionInv' /\ T!Next
<1>1. /\ CommitElsewhere(T!WithEnded(db, DOMAIN db.sessions \ Live(db), "swept"))
      /\ db' = T!WithEnded(db, DOMAIN db.sessions \ Live(db), "swept") /\ UNCHANGED thread
  BY DEF Sweep, CommitElsewhere
<1>2. db' \in Stores
  BY <1>1, EndedStored DEF ConnectionInv
<1>3. T!Next
  BY <1>1 DEF T!Next
<1> QED BY <1>1, <1>2, <1>3, ElsewhereKeeps

\* A restart of the API loses what was not committed and nothing else.
LEMMA RestartKeeps == ASSUME ConnectionInv, Restart PROVE ConnectionInv' /\ db' = db
  BY DEF Restart, ConnectionInv, Idle

-----------------------------------------------------------------------------
(* Membership *)

\* What a thread knows of its user, who was last in the group at seen, at time n.
LoginOK(task, n, seen) ==
    /\ task.pc \in {"ask", "told", "create"} =>
          task.user \in Users /\ task.since \in 0..n /\ n <= task.since + AskTime
    /\ task.pc = "ask" => task.last \in {"member", None} /\ (task.last = "member" => seen[task.user] # Never)
    /\ task.pc = "told" => task.role \in {"member", None} /\ (task.role = "member" => seen[task.user] >= task.since)
    /\ task.pc = "create" =>
          /\ task.role \in {"member", "admin"} /\ task.outage \in BOOLEAN
          /\ task.role = "admin" => task.user \in Admins
          /\ task.role = "member" => seen[task.user] # Never
          /\ task.role = "member" /\ ~task.outage => task.since - seen[task.user] < CacheLife

SessionOK(s, seen) ==
    /\ s.role = "admin" => s.user \in Admins
    /\ s.role = "member" => seen[s.user] # Never
    /\ s.role = "member" /\ ~s.outage =>
          s.expires - seen[s.user] <= (CacheLife - 1) + AskTime + SessionLife

ClockInv ==
    /\ now \in 0..MaxTime /\ lastIn \in [Users -> Never..MaxTime] /\ group \subseteq Users
    /\ \A u \in Users : lastIn[u] <= now /\ (u \in group => lastIn[u] = now)

\* A remembered yes is no older than the user's last time in the group.
CacheInv ==
    /\ DOMAIN cache \subseteq Users
    /\ \A u \in DOMAIN cache : /\ cache[u].at \in 0..now /\ cache[u].role \in {"member", None}
                               /\ cache[u].role = "member" => lastIn[u] >= cache[u].at

LoginsInv == DOMAIN thread = Threads /\ \A t \in Threads : LoginOK(thread[t], now, lastIn)

SessionsInv == db.sessions \in Seq(Stored) /\ \A i \in DOMAIN db.sessions : SessionOK(db.sessions[i], lastIn)

MembersInv == ClockInv /\ CacheInv /\ LoginsInv /\ SessionsInv

\* Only a login in progress makes a claim about membership.
LEMMA OtherTasksOK ==
  ASSUME NEW task, task.pc \notin {"ask", "told", "create"} PROVE LoginOK(task, now, lastIn)
  BY DEF LoginOK

\* A handler's step: the clock and the group stay.
LEMMA ThreadKeeps ==
  ASSUME MembersInv, UNCHANGED <<now, group, lastIn>>, CacheInv', SessionsInv',
         NEW t \in Threads, NEW task, Become(t, task), LoginOK(task, now, lastIn)
  PROVE  MembersInv'
<1>1. ClockInv'
  BY DEF MembersInv, ClockInv
<1>2. DOMAIN thread' = Threads /\ \A u \in Threads : thread'[u] = task \/ thread'[u] = thread[u]
  BY DEF MembersInv, LoginsInv, Become
<1>3. \A u \in Threads : LoginOK(thread'[u], now, lastIn)
  BY <1>2 DEF MembersInv, LoginsInv
<1>4. LoginsInv'
  BY <1>2, <1>3 DEF LoginsInv
<1> QED BY <1>1, <1>4 DEF MembersInv

\* The cache is as true as before while clock, group and cache stay.
LEMMA CacheStays == ASSUME CacheInv, UNCHANGED <<now, lastIn, cache>> PROVE CacheInv'
  BY DEF CacheInv

\* The sessions are as true as before while they and the group stay.
LEMMA SessionsStay == ASSUME SessionsInv, UNCHANGED lastIn, db'.sessions = db.sessions PROVE SessionsInv'
  BY DEF SessionsInv

\* A login starts: the limiter refuses, an administrator or the cache admits, or Telegram is asked.
LEMMA PostSessionMembers ==
  ASSUME MembersInv, NEW t \in Threads, NEW u \in Users, NEW valid \in BOOLEAN, PostSession(t, u, valid)
  PROVE  MembersInv'
<1>1. UNCHANGED <<now, group, lastIn, cache, db>>
  BY DEF PostSession, tables
<1>2. PICK task : Become(t, task) /\
                  \/ task = Idle
                  \/ u \in Admins /\ task = Login(u, "admin", FALSE)
                  \/ Cached(u) # {} /\ Cached(u) # {None} /\ task = Login(u, "member", FALSE)
                  \/ task = [pc |-> "ask", user |-> u, since |-> now,
                             last |-> IF u \in DOMAIN cache THEN cache[u].role ELSE None]
  BY DEF PostSession
<1>3. now \in Nat /\ CacheLife \in Nat /\ AskTime \in Nat /\ lastIn[u] \in Int
  BY AccessConstants DEF MembersInv, ClockInv, Never
<1>4. LoginOK(task, now, lastIn)
  <2>1. CASE task = Idle
    BY <2>1, OtherTasksOK DEF Idle
  <2>2. CASE u \in Admins /\ task = Login(u, "admin", FALSE)
    BY <1>3, <2>2 DEF LoginOK, Login
  <2>3. CASE Cached(u) # {} /\ Cached(u) # {None} /\ task = Login(u, "member", FALSE)
    <3>1. u \in DOMAIN cache /\ cache[u].role = "member" /\ now - cache[u].at < CacheLife
      BY <2>3 DEF Cached, MembersInv, CacheInv
    <3>2. cache[u].at \in Nat /\ lastIn[u] >= cache[u].at
      BY <3>1 DEF MembersInv, CacheInv
    <3> QED BY <1>3, <2>3, <3>1, <3>2 DEF LoginOK, Login, Never
  <2>4. CASE task = [pc |-> "ask", user |-> u, since |-> now,
                     last |-> IF u \in DOMAIN cache THEN cache[u].role ELSE None]
    <3>1. CASE u \in DOMAIN cache
      <4>1. cache[u].at \in Nat /\ cache[u].role \in {"member", None} /\ (cache[u].role = "member" => lastIn[u] >= cache[u].at)
        BY <3>1 DEF MembersInv, CacheInv
      <4> QED BY <1>3, <2>4, <3>1, <4>1 DEF LoginOK, Never
    <3>2. CASE u \notin DOMAIN cache
      BY <1>3, <2>4, <3>2 DEF LoginOK, None
    <3> QED BY <3>1, <3>2
  <2> QED BY <1>2, <2>1, <2>2, <2>3, <2>4
<1> QED BY <1>1, <1>2, <1>4, ThreadKeeps, CacheStays, SessionsStay DEF MembersInv

\* Telegram's answer, or its failure, makes a true claim about the member.
LEMMA AnswerMembers ==
  ASSUME MembersInv, NEW t \in Threads, TelegramAnswers(t) \/ AskFails(t) PROVE MembersInv'
<1> DEFINE u == thread[t].user
<1>1. UNCHANGED <<now, group, lastIn, cache, db>> /\ thread[t].pc = "ask"
  BY DEF TelegramAnswers, AskFails, tables, outside
<1>2. LoginOK(thread[t], now, lastIn)
  BY DEF MembersInv, LoginsInv
<1>3. /\ u \in Users /\ thread[t].since \in 0..now /\ now <= thread[t].since + AskTime
      /\ thread[t].last \in {"member", None} /\ (thread[t].last = "member" => lastIn[u] # Never)
  BY <1>1, <1>2 DEF LoginOK
<1>4. now \in Nat /\ lastIn[u] \in Int /\ (u \in group => lastIn[u] = now)
  BY <1>3, AccessConstants DEF MembersInv, ClockInv, Never
<1>5. PICK task : Become(t, task) /\
                  \/ \E role \in {None} \cup (IF u \in group THEN {"member"} ELSE {}) :
                       task = [pc |-> "told", user |-> u, since |-> thread[t].since, role |-> role]
                  \/ task = Idle
                  \/ thread[t].last # None /\ task = [Login(u, "member", TRUE) EXCEPT !.since = thread[t].since]
  BY DEF TelegramAnswers, AskFails
<1>6. LoginOK(task, now, lastIn)
  <2>1. CASE task = Idle
    BY <2>1, OtherTasksOK DEF Idle
  <2>2. CASE \E role \in {None} \cup (IF u \in group THEN {"member"} ELSE {}) :
                task = [pc |-> "told", user |-> u, since |-> thread[t].since, role |-> role]
    <3>1. PICK role \in {None} \cup (IF u \in group THEN {"member"} ELSE {}) :
                 task = [pc |-> "told", user |-> u, since |-> thread[t].since, role |-> role]
      BY <2>2
    <3>2. /\ task.pc = "told" /\ task.user = u /\ task.since = thread[t].since /\ task.role = role
          /\ role \in {"member", None} /\ (role = "member" => u \in group)
      BY <3>1 DEF None
    <3> QED BY <1>3, <1>4, <3>2 DEF LoginOK
  <2>3. CASE thread[t].last # None /\ task = [Login(u, "member", TRUE) EXCEPT !.since = thread[t].since]
    <3>1. /\ task.pc = "create" /\ task.user = u /\ task.role = "member" /\ task.outage = TRUE
          /\ task.since = thread[t].since
      BY <2>3 DEF Login
    <3> QED BY <1>3, <2>3, <3>1 DEF LoginOK
  <2> QED BY <1>5, <2>1, <2>2, <2>3
<1> QED BY <1>1, <1>5, <1>6, ThreadKeeps, CacheStays, SessionsStay DEF MembersInv

\* What is written to the cache was true no earlier than when the question was asked.
LEMMA RememberMembers ==
  ASSUME MembersInv, NEW t \in Threads, Remember(t) PROVE MembersInv'
<1> DEFINE u == thread[t].user
<1>1. /\ UNCHANGED <<now, group, lastIn, db>> /\ thread[t].pc = "told"
      /\ cache' = [v \in DOMAIN cache \cup {u} |->
                     IF v = u THEN [at |-> thread[t].since, role |-> thread[t].role] ELSE cache[v]]
  BY DEF Remember, tables, outside
<1>2. LoginOK(thread[t], now, lastIn)
  BY DEF MembersInv, LoginsInv
<1>3. /\ u \in Users /\ thread[t].since \in 0..now /\ now <= thread[t].since + AskTime
      /\ thread[t].role \in {"member", None} /\ (thread[t].role = "member" => lastIn[u] >= thread[t].since)
  BY <1>1, <1>2 DEF LoginOK
<1>4. now \in Nat /\ lastIn[u] \in Int /\ CacheLife \in Nat /\ CacheLife >= 1
  BY <1>3, AccessConstants DEF MembersInv, ClockInv, Never
<1>5. CacheInv'
  BY <1>1, <1>3 DEF MembersInv, CacheInv
<1>6. PICK task : Become(t, task) /\
                  \/ task = Idle
                  \/ thread[t].role # None /\ task = [Login(u, "member", FALSE) EXCEPT !.since = thread[t].since]
  BY DEF Remember
<1>7. LoginOK(task, now, lastIn)
  <2>1. CASE task = Idle
    BY <2>1, OtherTasksOK DEF Idle
  <2>2. CASE thread[t].role # None /\ task = [Login(u, "member", FALSE) EXCEPT !.since = thread[t].since]
    <3>1. /\ task.pc = "create" /\ task.user = u /\ task.role = "member" /\ task.outage = FALSE
          /\ task.since = thread[t].since
      BY <2>2 DEF Login
    <3>2. lastIn[u] >= thread[t].since /\ thread[t].since \in Nat
      BY <1>3, <2>2
    <3>3. lastIn[u] # Never /\ thread[t].since - lastIn[u] < CacheLife
      BY <1>4, <3>2 DEF Never
    <3> QED BY <1>3, <3>1, <3>3 DEF LoginOK
  <2> QED BY <1>6, <2>1, <2>2
<1> QED BY <1>1, <1>5, <1>6, <1>7, ThreadKeeps, SessionsStay DEF MembersInv

\* The session of a login that began with an answer no older than the cache allows.
LEMMA FreshSessionOK ==
  ASSUME NEW s, NEW n \in Nat, NEW since \in Nat, s.expires = n + SessionLife, n <= since + AskTime,
         lastIn[s.user] \in Int,
         s.role = "admin" => s.user \in Admins,
         s.role = "member" => lastIn[s.user] # Never,
         s.role = "member" /\ ~s.outage => since - lastIn[s.user] < CacheLife
  PROVE  SessionOK(s, lastIn)
<1>1. since - lastIn[s.user] < CacheLife => s.expires - lastIn[s.user] <= (CacheLife - 1) + AskTime + SessionLife
  BY AccessConstants
<1> QED BY <1>1 DEF SessionOK

\* A session is created: the claim of the login becomes that of the session.
LEMMA CreateKeeps ==
  ASSUME ConnectionInv, MembersInv, NEW t \in Threads, CreateSession(t)
  PROVE  ConnectionInv' /\ MembersInv' /\ T!Next
<1> DEFINE s == [user |-> thread[t].user, role |-> thread[t].role, status |-> "live",
                 expires |-> now + SessionLife, outage |-> thread[t].outage]
<1>1. /\ owner = None /\ draft = db /\ owner' = None /\ db' = T!WithSession(db, s) /\ draft' = db'
      /\ Become(t, Idle) /\ OnlyMoves(t) /\ thread'[t] = Idle /\ Enter(t) /\ UNCHANGED <<now, group, lastIn, cache>>
  BY EntersFree, BecomeMoves DEF CreateSession, Commit, outside
<1>2. LoginOK(thread[t], now, lastIn) /\ thread[t].pc = "create"
  BY DEF MembersInv, LoginsInv, CreateSession
<1>3. /\ s.user \in Users /\ s.role \in {"member", "admin"} /\ s.outage \in BOOLEAN
      /\ thread[t].since \in 0..now /\ now <= thread[t].since + AskTime
      /\ s.role = "admin" => s.user \in Admins
      /\ s.role = "member" => lastIn[s.user] # Never
      /\ s.role = "member" /\ ~s.outage => thread[t].since - lastIn[s.user] < CacheLife
  BY <1>2 DEF LoginOK
<1>4. /\ now \in 0..MaxTime /\ lastIn[s.user] \in Int /\ MaxTime \in Nat /\ CacheLife \in Nat
      /\ AskTime \in Nat /\ SessionLife \in Nat /\ thread[t].since \in Nat
  BY <1>3, AccessConstants DEF MembersInv, ClockInv, Never
<1>5. s.expires = now + SessionLife /\ s.expires \in 0..(MaxTime + SessionLife) /\ s.status = "live"
  BY <1>4
<1>6. s \in Stored /\ s \in T!Sessions
  BY <1>3, <1>5 DEF Stored, T!Sessions
<1> HIDE DEF s
<1>7. SessionOK(s, lastIn)
  BY <1>3, <1>4, <1>5, FreshSessionOK
<1>8. db \in Stores /\ db' \in Stores
  BY <1>1, <1>6, SessionStored DEF ConnectionInv
<1>9. db'.sessions = Append(db.sessions, s) /\ db.sessions \in Seq(Stored)
  BY <1>1, <1>8 DEF T!WithSession, Stores
<1>10. SessionsInv'
  <2>1. \A i \in DOMAIN db'.sessions : db'.sessions[i] = s \/ (i \in DOMAIN db.sessions /\ db'.sessions[i] = db.sessions[i])
    BY <1>9
  <2>2. \A i \in DOMAIN db'.sessions : SessionOK(db'.sessions[i], lastIn)
    BY <1>7, <2>1 DEF MembersInv, SessionsInv
  <2> QED BY <1>1, <1>6, <1>9, <2>2 DEF SessionsInv
<1>11. MembersInv'
  BY <1>1, <1>10, ThreadKeeps, CacheStays, OtherTasksOK DEF MembersInv, Idle
<1>12. T!Next
  BY <1>1, <1>6 DEF T!Next
<1> QED BY <1>1, <1>8, <1>11, <1>12, EndKeeps DEF Idle

\* A row that ends stays as it was but for its status.
LEMMA EndedSessionsOK ==
  ASSUME ConnectionInv, SessionsInv, UNCHANGED lastIn, NEW ended, NEW status \in {"revoked", "swept"},
         db' = T!WithEnded(db, ended, status)
  PROVE  SessionsInv'
<1>1. db \in Stores /\ db' \in Stores
  BY EndedStored DEF ConnectionInv
<1>2. db.sessions \in Seq(Stored) /\ db'.sessions \in Seq(Stored)
  BY <1>1 DEF Stores
<1>3. db'.sessions = [i \in DOMAIN db.sessions |->
                        IF i \in ended THEN [db.sessions[i] EXCEPT !.status = status] ELSE db.sessions[i]]
  BY <1>1 DEF T!WithEnded, Stores
<1>4. ASSUME NEW s \in Stored, SessionOK(s, lastIn) PROVE SessionOK([s EXCEPT !.status = status], lastIn)
  BY <1>4 DEF SessionOK, Stored
<1>5. ASSUME NEW i \in DOMAIN db'.sessions PROVE SessionOK(db'.sessions[i], lastIn)
  <2>1. i \in DOMAIN db.sessions /\ db.sessions[i] \in Stored /\ SessionOK(db.sessions[i], lastIn)
    BY <1>2, <1>3 DEF SessionsInv
  <2> QED BY <1>3, <1>4, <2>1
<1> QED BY <1>2, <1>5 DEF SessionsInv

\* The steps that neither log in nor touch a session.
LEMMA WorkMembers ==
  ASSUME MembersInv, UNCHANGED <<now, group, lastIn, cache>>, db'.sessions = db.sessions,
         NEW t \in Threads, NEW task, Become(t, task), task.pc \notin {"ask", "told", "create"}
  PROVE  MembersInv'
  BY OtherTasksOK, ThreadKeeps, CacheStays, SessionsStay DEF MembersInv

\* A step that touches neither thread, group nor cache keeps the claims if the sessions do.
LEMMA IdleMembers ==
  ASSUME MembersInv, UNCHANGED <<now, group, lastIn, cache, thread>>, SessionsInv'
  PROVE  MembersInv'
  BY CacheStays DEF MembersInv, ClockInv, LoginsInv

\* The note's statements keep the claims.
LEMMA NotesMembers ==
  ASSUME ConnectionInv, MembersInv, NEW t \in Threads, ReplaceNote(t) \/ InsertNote(t) \/ DeleteNote(t) \/ Audit(t)
  PROVE  MembersInv'
<1>1. db \in Stores /\ UNCHANGED <<now, group, lastIn, cache>>
  BY DEF ConnectionInv, ReplaceNote, InsertNote, DeleteNote, Audit, outside
<1>2. PICK task : Become(t, task) /\ task.pc \notin {"ask", "told", "create"}
  BY DEF ReplaceNote, InsertNote, DeleteNote, Audit, Idle
<1>3. db'.sessions = db.sessions
  <2>1. CASE ReplaceNote(t)
    BY <2>1 DEF ReplaceNote, Execute
  <2>2. CASE InsertNote(t)
    <3>1. draft = T!WithNoNote(db, "replaced") /\ db' = T!WithNote(draft)
      BY <2>2, AccessConstants DEF InsertNote, Commit, ConnectionInv, Opened
    <3> QED BY <1>1, <3>1, NoNoteStored, NoteStored
  <2>3. CASE DeleteNote(t) \/ Audit(t)
    <3>1. draft = db
      BY <2>3, EntersFree DEF DeleteNote, Audit, Commit
    <3> QED BY <1>1, <2>3, <3>1, NoNoteStored, AuditStored DEF DeleteNote, Audit, Commit
  <2> QED BY <2>1, <2>2, <2>3
<1> QED BY <1>1, <1>2, <1>3, WorkMembers

\* The batch's statements keep the claims.
LEMMA EventMembers ==
  ASSUME ConnectionInv, MembersInv, NEW t \in Threads, NEW e \in UNION Batches, AcceptEvent(t, e)
  PROVE  MembersInv'
<1>1. db \in Stores /\ UNCHANGED <<now, group, lastIn, cache>> /\ thread[t].pc = "batch" /\ Enter(t)
  BY DEF ConnectionInv, AcceptEvent, Rollback, Commit, Execute, outside
<1>2. PICK task : Become(t, task) /\ (task = Idle \/ task = [thread[t] EXCEPT !.left = @ \ {e}])
  BY DEF AcceptEvent
<1>3. task.pc \notin {"ask", "told", "create"}
  <2>1. CASE task = Idle
    BY <2>1 DEF Idle
  <2>2. CASE task = [thread[t] EXCEPT !.left = @ \ {e}]
    BY <1>1, <2>2
  <2> QED BY <1>2, <2>1, <2>2
<1>4. PICK batch \in Batches : draft = T!WithEvents(db, batch \ thread[t].left)
  BY <1>1, BatchSoFar
<1>5. db'.sessions = db.sessions
  <2>1. draft \in Stores /\ draft.sessions = db.sessions
    BY <1>1, <1>4, EventsStored
  <2>2. T!WithEvents(draft, {e}).sessions = draft.sessions
    BY <2>1, EventsStored
  <2> QED BY <2>1, <2>2 DEF AcceptEvent, Rollback, Commit, Execute
<1> QED BY <1>1, <1>2, <1>3, <1>5, WorkMembers

\* Ending sessions keeps the claims of the others.
LEMMA EndMembers ==
  ASSUME ConnectionInv, MembersInv,
         Sweep \/ \E t \in Threads : \E i \in DOMAIN draft.sessions : DeleteSession(t, i)
  PROVE  MembersInv'
<1>1. UNCHANGED <<now, group, lastIn, cache, thread>>
  BY DEF Sweep, DeleteSession, outside
<1>2. PICK ended \in SUBSET DOMAIN db.sessions, status \in {"revoked", "swept"} : db' = T!WithEnded(db, ended, status)
  <2>1. CASE Sweep
    BY <2>1 DEF Sweep, CommitElsewhere
  <2>2. ASSUME NEW t \in Threads, NEW i \in DOMAIN draft.sessions, DeleteSession(t, i)
        PROVE  i \in DOMAIN db.sessions /\ db' = T!WithEnded(db, {i}, "revoked")
    <3>1. thread[t].pc = "idle" /\ Enter(t)
      BY <2>2 DEF DeleteSession, Commit, Idle
    <3> QED BY <2>2, <3>1, EntersFree DEF DeleteSession, Commit
  <2> QED BY <2>1, <2>2
<1> QED BY <1>1, <1>2, EndedSessionsOK, IdleMembers DEF MembersInv

\* The command line's note keeps the claims.
LEMMA CliMembers == ASSUME ConnectionInv, MembersInv, CliNote PROVE MembersInv'
<1>1. UNCHANGED <<now, group, lastIn, cache, thread>> /\ \E d \in NoteCommand(db) : db' = d
  BY DEF CliNote, CommitElsewhere
<1>2. db'.sessions = db.sessions
  BY <1>1, NoNoteStored, NoteStored, AuditStored DEF NoteCommand, ConnectionInv
<1> QED BY <1>1, <1>2, SessionsStay, IdleMembers DEF MembersInv

\* require_session gives a thread a statement of the tables to make, or nothing to do.
LEMMA RequireKeeps ==
  ASSUME ConnectionInv, MembersInv, NEW t \in Threads, NEW i \in DOMAIN draft.sessions,
         \/ \E pc \in {"put", "delete"} : AdminRequest(t, i, pc)
         \/ \E u \in Users, batch \in Batches : PostBatch(t, u, i, batch)
  PROVE  ConnectionInv' /\ MembersInv' /\ db' = db
<1>1. PICK task : /\ RequireSession(t, i, task) /\ task.pc \in {"idle", "put", "delete", "batch"}
                  /\ task.pc = "batch" => task.left \in Batches
  <2>1. ASSUME NEW pc \in {"put", "delete"}, AdminRequest(t, i, pc) PROVE RequireSession(t, i, [pc |-> pc])
    BY <2>1 DEF AdminRequest
  <2>2. ASSUME NEW u \in Users, NEW batch \in Batches, PostBatch(t, u, i, batch)
        PROVE  RequireSession(t, i, [pc |-> "batch", left |-> batch]) \/ RequireSession(t, i, Idle)
    BY <2>2 DEF PostBatch
  <2>3. ASSUME NEW pc \in {"put", "delete"} PROVE [pc |-> pc].pc \in {"put", "delete"}
    OBVIOUS
  <2>4. ASSUME NEW batch \in Batches PROVE [pc |-> "batch", left |-> batch].pc = "batch" /\ [pc |-> "batch", left |-> batch].left \in Batches
    OBVIOUS
  <2>5. Idle.pc = "idle"
    BY DEF Idle
  <2>6. CASE \E pc \in {"put", "delete"} : AdminRequest(t, i, pc)
    BY <2>1, <2>3, <2>6
  <2>7. CASE \E u \in Users, batch \in Batches : PostBatch(t, u, i, batch)
    BY <2>2, <2>4, <2>5, <2>7
  <2> QED BY <2>6, <2>7
<1>2. thread[t].pc = "idle" /\ Become(t, task) /\ UNCHANGED <<now, group, cache, lastIn, tables, db>>
  BY <1>1 DEF RequireSession, Idle, tables
<1>3. ConnectionInv'
  BY <1>1, <1>2, BecomeMoves, OutsideKeeps
<1> QED BY <1>1, <1>2, <1>3, WorkMembers

\* A login's steps before its session.
LEMMA LoginKeeps ==
  ASSUME ConnectionInv, NEW t \in Threads,
         \/ \E u \in Users, valid \in BOOLEAN : PostSession(t, u, valid)
         \/ TelegramAnswers(t) \/ Remember(t) \/ AskFails(t)
  PROVE  ConnectionInv' /\ db' = db
<1>1. thread[t].pc \in {"idle", "ask", "told"} /\ UNCHANGED tables
  <2>1. CASE \E u \in Users, valid \in BOOLEAN : PostSession(t, u, valid)
    BY <2>1 DEF PostSession, Idle
  <2>2. CASE TelegramAnswers(t) \/ Remember(t) \/ AskFails(t)
    BY <2>2 DEF TelegramAnswers, Remember, AskFails
  <2> QED BY <2>1, <2>2
<1>2. PICK task : Become(t, task) /\ task.pc \in {"idle", "ask", "told", "create"}
  <2>1. Idle.pc = "idle" /\ \A outage \in BOOLEAN :
          [Login(thread[t].user, "member", outage) EXCEPT !.since = thread[t].since].pc = "create"
    BY DEF Login, Idle
  <2>2. CASE Remember(t)
    <3>1. \/ Become(t, Idle)
          \/ Become(t, [Login(thread[t].user, "member", FALSE) EXCEPT !.since = thread[t].since])
      BY <2>2 DEF Remember
    <3> QED BY <2>1, <3>1
  <2>3. CASE AskFails(t)
    <3>1. \/ Become(t, Idle)
          \/ Become(t, [Login(thread[t].user, "member", TRUE) EXCEPT !.since = thread[t].since])
      BY <2>3 DEF AskFails
    <3> QED BY <2>1, <3>1
  <2>4. CASE TelegramAnswers(t)
    BY <2>4 DEF TelegramAnswers
  <2>5. ASSUME NEW u \in Users, NEW valid \in BOOLEAN, PostSession(t, u, valid)
        PROVE  \E task : Become(t, task) /\ task.pc \in {"idle", "ask", "told", "create"}
    <3>1. \/ Become(t, Idle) \/ Become(t, Login(u, "admin", FALSE)) \/ Become(t, Login(u, "member", FALSE))
          \/ Become(t, [pc |-> "ask", user |-> u, since |-> now,
                        last |-> IF u \in DOMAIN cache THEN cache[u].role ELSE None])
      BY <2>5 DEF PostSession
    <3> QED BY <3>1 DEF Idle, Login
  <2> QED BY <2>2, <2>3, <2>4, <2>5
<1>3. ConnectionInv'
  BY <1>1, <1>2, BecomeMoves, OutsideKeeps
<1> QED BY <1>1, <1>3 DEF tables

\* A restart forgets cache and logins, and keeps the sessions.
LEMMA RestartMembers == ASSUME MembersInv, Restart PROVE MembersInv'
<1>1. LoginsInv'
  BY OtherTasksOK DEF Restart, LoginsInv, Idle, LoginOK
<1> QED BY <1>1 DEF Restart, MembersInv, ClockInv, CacheInv, SessionsInv

\* Time and moves: nobody's last time in the group gets earlier.
LEMMA LaterKeeps ==
  ASSUME MembersInv, UNCHANGED <<cache, thread, db>>, ClockInv', now' \in {now, now + 1},
         \A u \in Users : lastIn'[u] >= lastIn[u],
         now' # now => \A t \in Threads : thread[t].pc \in {"ask", "told", "create"} => now < thread[t].since + AskTime
  PROVE  MembersInv'
<1>1. \A u \in Users : lastIn[u] \in Int /\ lastIn'[u] \in Int /\ lastIn[u] >= Never
  BY AccessConstants DEF MembersInv, ClockInv, Never
<1>2. now \in Nat /\ now' \in Nat /\ AskTime \in Nat /\ CacheLife \in Nat /\ SessionLife \in Nat
  BY AccessConstants DEF MembersInv, ClockInv
<1>3. CacheInv'
  <2> SUFFICES ASSUME NEW u \in DOMAIN cache
               PROVE  /\ cache[u].at \in 0..now' /\ cache[u].role \in {"member", None}
                      /\ cache[u].role = "member" => lastIn'[u] >= cache[u].at
    BY DEF CacheInv, MembersInv
  <2>1. /\ u \in Users /\ cache[u].at \in 0..now /\ cache[u].role \in {"member", None}
        /\ cache[u].role = "member" => lastIn[u] >= cache[u].at
    BY DEF MembersInv, CacheInv
  <2> QED BY <1>1, <1>2, <2>1
<1>4. LoginsInv'
  <2> SUFFICES ASSUME NEW t \in Threads PROVE LoginOK(thread[t], now', lastIn')
    BY DEF LoginsInv, MembersInv
  <2>1. LoginOK(thread[t], now, lastIn)
    BY DEF MembersInv, LoginsInv
  <2>2. CASE thread[t].pc \in {"ask", "told", "create"}
    <3> DEFINE u == thread[t].user
    <3>1. u \in Users /\ thread[t].since \in 0..now /\ now <= thread[t].since + AskTime
      BY <2>1, <2>2 DEF LoginOK
    <3>2. thread[t].since \in 0..now' /\ now' <= thread[t].since + AskTime
      BY <1>2, <2>2, <3>1
    <3>3. lastIn[u] # Never => lastIn'[u] # Never
      BY <1>1, <3>1 DEF Never
    <3>4. lastIn[u] >= thread[t].since => lastIn'[u] >= thread[t].since
      BY <1>1, <1>2, <3>1
    <3>5. thread[t].since - lastIn[u] < CacheLife => thread[t].since - lastIn'[u] < CacheLife
      BY <1>1, <1>2, <3>1
    <3> QED BY <2>1, <3>1, <3>2, <3>3, <3>4, <3>5 DEF LoginOK
  <2>3. CASE thread[t].pc \notin {"ask", "told", "create"}
    BY <2>3 DEF LoginOK
  <2> QED BY <2>2, <2>3
<1>5. SessionsInv'
  <2> SUFFICES ASSUME NEW i \in DOMAIN db.sessions PROVE SessionOK(db.sessions[i], lastIn')
    BY DEF SessionsInv, MembersInv
  <2> DEFINE s == db.sessions[i]
  <2>1. s \in Stored /\ SessionOK(s, lastIn)
    BY DEF MembersInv, SessionsInv
  <2>2. s.user \in Users /\ s.expires \in Int
    BY <2>1, AccessConstants DEF Stored
  <2>3. lastIn[s.user] # Never => lastIn'[s.user] # Never
    BY <1>1, <2>2 DEF Never
  <2>4. s.expires - lastIn[s.user] <= (CacheLife - 1) + AskTime + SessionLife =>
          s.expires - lastIn'[s.user] <= (CacheLife - 1) + AskTime + SessionLife
    BY <1>1, <1>2, <2>2
  <2> QED BY <2>1, <2>3, <2>4 DEF SessionOK
<1> QED BY <1>3, <1>4, <1>5 DEF MembersInv

\* As time passes, sessions and cached answers expire before their claims do.
LEMMA TickMembers == ASSUME MembersInv, Tick PROVE MembersInv'
<1>1. /\ now < MaxTime /\ now' = now + 1 /\ lastIn' = [u \in Users |-> IF u \in group THEN now' ELSE lastIn[u]]
      /\ \A t \in Threads : thread[t].pc \in {"ask", "told", "create"} => now < thread[t].since + AskTime
      /\ UNCHANGED <<group, cache, thread, db>>
  BY DEF Tick, tables
<1>2. now \in 0..MaxTime /\ lastIn \in [Users -> Never..MaxTime] /\ MaxTime \in Nat /\ group \subseteq Users
      /\ \A u \in Users : lastIn[u] <= now /\ (u \in group => lastIn[u] = now)
  BY AccessConstants DEF MembersInv, ClockInv
<1>3. \A u \in Users : lastIn'[u] >= lastIn[u] /\ lastIn'[u] <= now' /\ lastIn'[u] \in Never..MaxTime
  BY <1>1, <1>2 DEF Never
<1>4. ClockInv'
  BY <1>1, <1>2, <1>3 DEF ClockInv
<1> QED BY <1>1, <1>3, <1>4, LaterKeeps

\* Someone joins or leaves: lastIn records it and the claims stay.
LEMMA MoveMembers == ASSUME MembersInv, NEW u \in Users \ Admins, Move(u) PROVE MembersInv'
<1>1. lastIn' = [lastIn EXCEPT ![u] = now] /\ UNCHANGED <<now, cache, thread, db>>
      /\ (group' = group \ {u} \/ group' = group \cup {u})
  BY DEF Move, tables
<1>2. now \in 0..MaxTime /\ lastIn \in [Users -> Never..MaxTime] /\ MaxTime \in Nat /\ group \subseteq Users
      /\ \A v \in Users : lastIn[v] <= now /\ (v \in group => lastIn[v] = now)
  BY AccessConstants DEF MembersInv, ClockInv
<1>3. \A v \in Users : lastIn'[v] >= lastIn[v] /\ lastIn'[v] <= now' /\ lastIn'[v] \in Never..MaxTime
  BY <1>1, <1>2 DEF Never
<1>4. ClockInv'
  BY <1>1, <1>2, <1>3 DEF ClockInv
<1> QED BY <1>1, <1>3, <1>4, LaterKeeps

-----------------------------------------------------------------------------
(* The tables change whole, and only members get in *)

AccessInv == ConnectionInv /\ MembersInv

\* The invariant holds at first.
LEMMA InitAccess == Init => AccessInv
<1> SUFFICES ASSUME Init PROVE AccessInv
  OBVIOUS
<1>1. db \in Stores /\ db.sessions = <<>>
  BY DEF Init, T!Empty, Stores
<1>2. ConnectionInv
  BY <1>1 DEF Init, ConnectionInv, Idle
<1>3. ClockInv
  BY AccessConstants DEF Init, ClockInv, Never
<1>4. LoginsInv
  BY OtherTasksOK DEF Init, LoginsInv, Idle
<1>5. CacheInv /\ SessionsInv
  BY <1>1 DEF Init, CacheInv, SessionsInv
<1> QED BY <1>2, <1>3, <1>4, <1>5 DEF AccessInv, MembersInv

\* Steps that touch neither threads nor tables keep the connection.
LEMMA StillKeeps == ASSUME ConnectionInv, UNCHANGED <<thread, tables>> PROVE ConnectionInv'
  BY DEF ConnectionInv, Opened, tables

\* Every step of a handler keeps the invariant and is a step of Tables or a stutter.
LEMMA HandlerKeeps ==
  ASSUME AccessInv, NEW t \in Threads, Handler(t) PROVE AccessInv' /\ [T!Next]_db
<1>0. ConnectionInv /\ MembersInv
  BY DEF AccessInv
<1>1. CASE \E u \in Users, valid \in BOOLEAN : PostSession(t, u, valid)
  BY <1>0, <1>1, LoginKeeps, PostSessionMembers DEF AccessInv
<1>2. CASE TelegramAnswers(t) \/ AskFails(t)
  BY <1>0, <1>2, LoginKeeps, AnswerMembers DEF AccessInv
<1>3. CASE Remember(t)
  BY <1>0, <1>3, LoginKeeps, RememberMembers DEF AccessInv
<1>4. CASE CreateSession(t)
  BY <1>0, <1>4, CreateKeeps DEF AccessInv
<1>5. ASSUME NEW i \in DOMAIN draft.sessions,
             \/ DeleteSession(t, i)
             \/ \E pc \in {"put", "delete"} : AdminRequest(t, i, pc)
             \/ \E u \in Users, batch \in Batches : PostBatch(t, u, i, batch)
      PROVE  AccessInv' /\ [T!Next]_db
  <2>1. CASE DeleteSession(t, i)
    BY <1>0, <2>1, StatementKeeps, EndMembers DEF AccessInv
  <2>2. CASE \/ \E pc \in {"put", "delete"} : AdminRequest(t, i, pc)
             \/ \E u \in Users, batch \in Batches : PostBatch(t, u, i, batch)
    BY <1>0, <2>2, RequireKeeps DEF AccessInv
  <2> QED BY <1>5, <2>1, <2>2
<1>6. CASE ReplaceNote(t)
  BY <1>0, <1>6, ReplaceKeeps, NotesMembers DEF AccessInv
<1>7. CASE InsertNote(t)
  BY <1>0, <1>7, InsertKeeps, NotesMembers DEF AccessInv
<1>8. CASE DeleteNote(t) \/ Audit(t)
  BY <1>0, <1>8, StatementKeeps, NotesMembers DEF AccessInv
<1>9. ASSUME NEW e \in UNION Batches, AcceptEvent(t, e) PROVE AccessInv' /\ [T!Next]_db
  BY <1>0, <1>9, EventKeeps, EventMembers DEF AccessInv
<1> QED BY <1>1, <1>2, <1>3, <1>4, <1>5, <1>6, <1>7, <1>8, <1>9 DEF Handler

\* So is every step.
LEMMA StepKeeps == ASSUME AccessInv, [Next]_vars PROVE AccessInv' /\ [T!Next]_db
<1>0. ConnectionInv /\ MembersInv
  BY DEF AccessInv
<1>1. CASE \E t \in Threads : Handler(t)
  BY <1>1, HandlerKeeps
<1>2. CASE CliNote
  BY <1>0, <1>2, CliKeeps, CliMembers DEF AccessInv
<1>3. CASE Sweep
  BY <1>0, <1>3, SweepKeeps, EndMembers DEF AccessInv
<1>4. CASE Restart
  BY <1>0, <1>4, RestartKeeps, RestartMembers DEF AccessInv
<1>5. CASE Tick
  <2>1. UNCHANGED <<thread, tables, db>>
    BY <1>5 DEF Tick, tables
  <2> QED BY <1>0, <1>5, <2>1, StillKeeps, TickMembers DEF AccessInv
<1>6. ASSUME NEW u \in Users \ Admins, Move(u) PROVE AccessInv' /\ [T!Next]_db
  <2>1. UNCHANGED <<thread, tables, db>>
    BY <1>6 DEF Move, tables
  <2> QED BY <1>0, <1>6, <2>1, StillKeeps, MoveMembers DEF AccessInv
<1>7. CASE UNCHANGED vars
  <2>1. UNCHANGED <<now, group, lastIn, cache, thread, tables, db>>
    BY <1>7 DEF vars, tables
  <2>2. SessionsInv'
    BY <1>0, <2>1, SessionsStay DEF MembersInv
  <2> QED BY <1>0, <2>1, <2>2, StillKeeps, IdleMembers DEF AccessInv
<1> QED BY <1>1, <1>2, <1>3, <1>4, <1>5, <1>6, <1>7 DEF Next

\* The inductive invariant of the connection and of membership.
THEOREM AccessSafe == Spec => []AccessInv
  BY InitAccess, StepKeeps, PTL DEF Spec

\* database.py: Access implements Tables: what the threads, the command line and the
\* loop interleave, and wherever the API is killed, the tables change by whole operations.
THEOREM ImplementsTables == Spec => TablesChangeWhole
<1>1. Init => db = T!Empty
  BY DEF Init
<1> QED BY <1>1, AccessSafe, StepKeeps, PTL DEF Spec, TablesChangeWhole, T!Spec

\* The app is only for members of the group, for all times a session, a cached answer
\* and a login may last.
THEOREM MembersOnly == Spec => []OnlyMembersGetIn
<1>1. AccessInv => OnlyMembersGetIn
  <2> SUFFICES ASSUME AccessInv, NEW i \in Live(db)
               PROVE  LET s == db.sessions[i] IN
                      \/ s.role = "admin" /\ s.user \in Admins
                      \/ s.role = "member" /\ s.outage /\ lastIn[s.user] # Never
                      \/ s.role = "member" /\ lastIn[s.user] # Never
                         /\ now - lastIn[s.user] <= (CacheLife - 1) + AskTime + (SessionLife - 1)
    BY DEF OnlyMembersGetIn
  <2> DEFINE s == db.sessions[i]
  <2>1. s \in Stored /\ SessionOK(s, lastIn) /\ s.expires > now
    BY DEF AccessInv, MembersInv, SessionsInv, Live
  <2>2. s.user \in Users /\ s.role \in {"member", "admin"} /\ s.outage \in BOOLEAN /\ s.expires \in Int
    BY <2>1, AccessConstants DEF Stored
  <2>3. now \in Int /\ lastIn[s.user] \in Int
    BY <2>2, AccessConstants DEF AccessInv, MembersInv, ClockInv, Never
  <2>4. s.expires - lastIn[s.user] <= (CacheLife - 1) + AskTime + SessionLife =>
          now - lastIn[s.user] <= (CacheLife - 1) + AskTime + (SessionLife - 1)
    BY <2>1, <2>2, <2>3, AccessConstants
  <2> QED BY <2>1, <2>2, <2>4 DEF SessionOK
<1> QED BY <1>1, AccessSafe, PTL

-----------------------------------------------------------------------------
(* The rate limiter *)

\* What Min of two numbers is.
LEMMA MinOfTwo ==
  ASSUME NEW a \in Int, NEW b \in Int
  PROVE  Min({a, b}) \in {a, b} /\ Min({a, b}) <= a /\ Min({a, b}) <= b
<1>1. \E x \in {a, b} : \A y \in {a, b} : x <= y
  <2>1. CASE a <= b
    BY <2>1
  <2>2. CASE b <= a
    BY <2>2
  <2> QED BY <2>1, <2>2
<1>2. Min({a, b}) \in {a, b} /\ \A y \in {a, b} : Min({a, b}) <= y
  BY <1>1 DEF Min
<1> QED BY <1>2

\* The requests q of one key that passed, and its bucket b: from any of them on, no
\* more have passed than the tokens that are missing and those that came back since.
BucketOK(b, q, n) ==
    /\ b.tokens \in 0..Limit /\ b.updated \in 0..n
    /\ \A i \in DOMAIN q : Len(q) - i + 1 <= Limit - b.tokens + b.updated - q[i]

Bounded(q) == \A i, j \in DOMAIN q : i <= j => j - i + 1 <= Limit + q[j] - q[i]

LimiterInv ==
    /\ now \in Nat /\ passed \in [Keys -> Seq(Nat)] /\ DOMAIN buckets \subseteq Keys
    /\ \A k \in Keys \ DOMAIN buckets : passed[k] = <<>>
    /\ \A k \in DOMAIN buckets : BucketOK(buckets[k], passed[k], now)
    /\ \A k \in Keys : Bounded(passed[k])

\* A bucket's tokens are at most its limit and at most what it had and time gave back.
LEMMA TokensBounds ==
  ASSUME LimiterInv, NEW key \in Keys
  PROVE  /\ Tokens(key) \in 0..Limit
         /\ key \in DOMAIN buckets => Tokens(key) <= buckets[key].tokens + now - buckets[key].updated
<1>1. CASE key \notin DOMAIN buckets
  BY <1>1, AccessConstants DEF Tokens
<1>2. CASE key \in DOMAIN buckets
  <2>1. buckets[key].tokens \in 0..Limit /\ buckets[key].updated \in 0..now /\ now \in Nat /\ Limit \in Nat
    BY <1>2, AccessConstants DEF LimiterInv, BucketOK
  <2> DEFINE back == buckets[key].tokens + now - buckets[key].updated
  <2>2. back \in Nat
    BY <2>1
  <2>3. Tokens(key) = Min({Limit, back})
    BY <1>2 DEF Tokens
  <2> HIDE DEF back
  <2>4. Tokens(key) \in {Limit, back} /\ Tokens(key) <= Limit /\ Tokens(key) <= back
    BY <2>1, <2>2, <2>3, MinOfTwo
  <2>5. Tokens(key) \in 0..Limit
    BY <2>1, <2>2, <2>4
  <2> QED BY <2>4, <2>5 DEF back
<1> QED BY <1>1, <1>2

\* The bucket is written back after tokens came back, at most those of the time since.
LEMMA RefillKeeps ==
  ASSUME NEW q \in Seq(Nat), NEW n \in Nat, NEW b, BucketOK(b, q, n), NEW left \in 0..Limit,
         left <= b.tokens + n - b.updated, NEW c, c.tokens = left, c.updated = n
  PROVE  BucketOK(c, q, n)
<1>1. Limit \in Nat /\ b.tokens \in Nat /\ b.updated \in Nat
  BY AccessConstants DEF BucketOK
<1>2. ASSUME NEW i \in DOMAIN q PROVE Len(q) - i + 1 <= Limit - left + n - q[i]
  <2> DEFINE len == Len(q) at == q[i] tokens == b.tokens updated == b.updated
  <2>1. len - i + 1 <= Limit - tokens + updated - at /\ left <= tokens + n - updated
    BY <1>1 DEF BucketOK
  <2>2. len \in Int /\ i \in Int /\ at \in Int /\ tokens \in Int /\ updated \in Int
    BY <1>1
  <2>3. left \in Int /\ n \in Int /\ Limit \in Int
    BY <1>1
  <2> HIDE DEF len, at, tokens, updated
  <2>4. len - i + 1 <= Limit - left + n - at
    BY <2>1, <2>2, <2>3
  <2> QED BY <2>4 DEF len, at
<1> QED BY <1>1, <1>2 DEF BucketOK

\* A request passes: it is appended, and the bucket has one token less.
LEMMA PassKeeps ==
  ASSUME NEW q \in Seq(Nat), NEW n \in Nat, NEW c, BucketOK(c, q, n), c.updated = n, c.tokens >= 1, Bounded(q),
         NEW d, d.tokens = c.tokens - 1, d.updated = n
  PROVE  BucketOK(d, Append(q, n), n) /\ Bounded(Append(q, n)) /\ Append(q, n) \in Seq(Nat)
<1> DEFINE r == Append(q, n)
<1>1. Limit \in Nat /\ c.tokens \in 0..Limit
  BY AccessConstants DEF BucketOK
<1>2. r \in Seq(Nat) /\ Len(q) \in Nat /\ Len(r) = Len(q) + 1 /\ r[Len(r)] = n
  OBVIOUS
<1>3. \A i \in DOMAIN r : i \in Nat /\ i <= Len(r) /\ r[i] \in Nat /\ (i = Len(r) \/ (i \in DOMAIN q /\ r[i] = q[i]))
  OBVIOUS
<1> HIDE DEF r
<1>4. ASSUME NEW i \in DOMAIN r PROVE Len(r) - i + 1 <= Limit - (c.tokens - 1) + n - r[i]
  <2>1. CASE i = Len(r)
    BY <1>1, <1>2, <1>3, <2>1
  <2>2. CASE i \in DOMAIN q /\ r[i] = q[i]
    <3>1. Len(q) - i + 1 <= Limit - c.tokens + n - q[i] /\ i \in Nat /\ r[i] \in Nat
      BY <1>3, <2>2 DEF BucketOK
    <3> DEFINE len == Len(q) at == q[i] tokens == c.tokens
    <3>2. len - i + 1 <= Limit - tokens + n - at /\ {len, i, at, tokens, n, Limit} \subseteq Int
      BY <1>1, <1>2, <2>2, <3>1
    <3> HIDE DEF len, at, tokens
    <3>3. len + 1 - i + 1 <= Limit - (tokens - 1) + n - at
      BY <3>2
    <3>4. Len(q) + 1 - i + 1 <= Limit - (c.tokens - 1) + n - q[i]
      BY <3>3 DEF len, at, tokens
    <3> QED BY <1>2, <2>2, <3>4
  <2> QED BY <1>3, <2>1, <2>2
<1>5. BucketOK(d, r, n)
  <2>1. d.tokens \in 0..Limit
    BY <1>1
  <2> QED BY <1>4, <2>1 DEF BucketOK
<1>6. ASSUME NEW i \in DOMAIN r, NEW j \in DOMAIN r, i <= j PROVE j - i + 1 <= Limit + r[j] - r[i]
  <2>1. CASE j = Len(r)
    <3>1. Len(r) - i + 1 <= Limit - (c.tokens - 1) + n - r[i] /\ i \in Nat /\ r[i] \in Nat /\ Len(r) \in Nat
      BY <1>2, <1>3, <1>4
    <3> DEFINE len == Len(r) at == r[i] tokens == c.tokens
    <3>2. /\ len - i + 1 <= Limit - (tokens - 1) + n - at /\ tokens >= 1
          /\ {len, i, at, tokens, n, Limit} \subseteq Int
      BY <1>1, <3>1
    <3> HIDE DEF len, at, tokens
    <3>3. len - i + 1 <= Limit + n - at
      BY <3>2
    <3>4. Len(r) - i + 1 <= Limit + n - r[i]
      BY <3>3 DEF len, at
    <3> QED BY <1>2, <2>1, <3>4
  <2>2. CASE j # Len(r)
    <3>1. j \in DOMAIN q /\ r[j] = q[j]
      BY <1>3, <2>2
    <3>2. i # Len(r)
      BY <1>3, <1>6, <2>2
    <3>3. i \in DOMAIN q /\ r[i] = q[i]
      BY <1>3, <3>2
    <3> QED BY <1>6, <3>1, <3>3 DEF Bounded
  <2> QED BY <2>1, <2>2
<1> QED BY <1>2, <1>5, <1>6 DEF Bounded, r

\* RateLimiter.allow keeps the invariant, for the bucket it takes from and the one it evicts.
LEMMA AllowKeeps ==
  ASSUME LimiterInv, UNCHANGED now, NEW key \in Keys, Allow(key)
  PROVE  LimiterInv'
<1> DEFINE left == IF Allowed(key) THEN Tokens(key) - 1 ELSE Tokens(key)
           bucket == [tokens |-> left, updated |-> now, turn |-> requests]
           full == [tokens |-> Tokens(key), updated |-> now]
           log == IF Allowed(key) THEN Append(passed[key], now) ELSE passed[key]
<1>1. PICK kept \in SUBSET (DOMAIN buckets \cup {key}) :
        /\ buckets' = [k \in kept |-> IF k = key THEN bucket ELSE buckets[k]]
        /\ passed' = [k \in Keys |-> IF k \notin kept THEN <<>>
                                     ELSE IF k = key /\ Allowed(key) THEN Append(passed[k], now)
                                     ELSE passed[k]]
  BY DEF Allow
<1>2. now \in Nat /\ passed[key] \in Seq(Nat) /\ Tokens(key) \in 0..Limit /\ Limit \in Nat /\ Bounded(passed[key])
  BY TokensBounds, AccessConstants DEF LimiterInv
<1>3. BucketOK(full, passed[key], now) /\ full.tokens = Tokens(key) /\ full.updated = now
  <2>0. full.tokens = Tokens(key) /\ full.updated = now
    OBVIOUS
  <2>1. CASE key \in DOMAIN buckets
    <3>1. BucketOK(buckets[key], passed[key], now) /\ Tokens(key) <= buckets[key].tokens + now - buckets[key].updated
      BY <2>1, TokensBounds DEF LimiterInv
    <3> HIDE DEF full
    <3> QED BY <1>2, <2>0, <3>1, RefillKeeps
  <2>2. CASE key \notin DOMAIN buckets
    <3>1. passed[key] = <<>>
      BY <2>2 DEF LimiterInv
    <3> HIDE DEF full
    <3> QED BY <1>2, <2>0, <3>1 DEF BucketOK
  <2> QED BY <2>1, <2>2
<1>4. bucket.tokens = left /\ bucket.updated = now
  OBVIOUS
<1> HIDE DEF bucket, full
<1>5. BucketOK(bucket, log, now) /\ Bounded(log) /\ log \in Seq(Nat)
  <2>1. CASE Allowed(key)
    BY <1>2, <1>3, <1>4, <2>1, PassKeeps DEF Allowed
  <2>2. CASE ~Allowed(key)
    BY <1>2, <1>3, <1>4, <2>2 DEF BucketOK
  <2> QED BY <2>1, <2>2
<1> HIDE DEF log, left
<1>6. ASSUME NEW k \in Keys
      PROVE  /\ passed'[k] \in Seq(Nat) /\ Bounded(passed'[k]) /\ (k \notin DOMAIN buckets' => passed'[k] = <<>>)
             /\ k \in DOMAIN buckets' => BucketOK(buckets'[k], passed'[k], now)
  <2>1. CASE k \notin kept
    BY <1>1, <2>1 DEF Bounded
  <2>2. CASE k \in kept /\ k = key
    <3>1. passed'[k] = log /\ buckets'[k] = bucket /\ DOMAIN buckets' = kept
      BY <1>1, <2>2 DEF log
    <3> QED BY <1>5, <2>2, <3>1
  <2>3. CASE k \in kept /\ k # key
    <3>1. passed'[k] = passed[k] /\ buckets'[k] = buckets[k] /\ k \in DOMAIN buckets /\ DOMAIN buckets' = kept
      BY <1>1, <2>3
    <3> QED BY <2>3, <3>1 DEF LimiterInv
  <2> QED BY <2>1, <2>2, <2>3
<1>7. DOMAIN buckets' \subseteq Keys /\ passed' = [k \in Keys |-> passed'[k]]
  BY <1>1 DEF LimiterInv
<1> QED BY <1>2, <1>6, <1>7 DEF LimiterInv

\* Every step keeps the limiter's invariant.
LEMMA LimiterStep == ASSUME LimiterInv, [Next]_vars PROVE LimiterInv'
<1>1. CASE UNCHANGED <<now, buckets, passed>>
  BY <1>1 DEF LimiterInv
<1>2. ASSUME NEW key \in Keys, Allow(key), UNCHANGED now PROVE LimiterInv'
  BY <1>2, AllowKeeps
<1>3. ASSUME NEW t \in Threads, Handler(t) PROVE LimiterInv'
  <2>1. ASSUME NEW u \in Users, NEW valid \in BOOLEAN, PostSession(t, u, valid) PROVE LimiterInv'
    BY <1>2, <2>1 DEF PostSession, Keys
  <2>2. ASSUME NEW i \in DOMAIN draft.sessions, NEW u \in Users, NEW batch \in Batches, PostBatch(t, u, i, batch)
        PROVE  LimiterInv'
    BY <1>2, <2>2 DEF PostBatch, RequireSession, Keys
  <2>3. CASE \/ TelegramAnswers(t) \/ Remember(t) \/ AskFails(t) \/ CreateSession(t)
             \/ ReplaceNote(t) \/ InsertNote(t) \/ DeleteNote(t) \/ Audit(t)
    BY <1>1, <2>3 DEF TelegramAnswers, Remember, AskFails, CreateSession,
                      ReplaceNote, InsertNote, DeleteNote, Audit, outside
  <2>4. ASSUME NEW i \in DOMAIN draft.sessions,
               DeleteSession(t, i) \/ \E pc \in {"put", "delete"} : AdminRequest(t, i, pc)
        PROVE  LimiterInv'
    BY <1>1, <2>4 DEF DeleteSession, AdminRequest, RequireSession
  <2>5. ASSUME NEW e \in UNION Batches, AcceptEvent(t, e) PROVE LimiterInv'
    BY <1>1, <2>5 DEF AcceptEvent, outside
  <2> QED BY <1>3, <2>1, <2>2, <2>3, <2>4, <2>5 DEF Handler
<1>4. CASE CliNote \/ Sweep \/ \E u \in Users \ Admins : Move(u)
  BY <1>1, <1>4 DEF CliNote, Sweep, Move, outside
<1>5. CASE Restart
  BY <1>5 DEF Restart, LimiterInv, Bounded
<1>6. CASE Tick
  <2>1. now' = now + 1 /\ UNCHANGED <<buckets, passed>> /\ now \in Nat
    BY <1>6 DEF Tick, LimiterInv
  <2>2. \A b, q : BucketOK(b, q, now) => BucketOK(b, q, now')
    BY <2>1 DEF BucketOK
  <2> QED BY <2>1, <2>2 DEF LimiterInv
<1>7. CASE UNCHANGED vars
  BY <1>1, <1>7 DEF vars
<1> QED BY <1>3, <1>4, <1>5, <1>6, <1>7 DEF Next

\* However the requests of an address are spaced, and whichever buckets are evicted,
\* no span of time passes more of them than a bucket holds and gets back.
THEOREM BurstsAreBounded == Spec => []BurstIsBounded
<1>1. Init => LimiterInv
  BY DEF Init, LimiterInv, Bounded
<1>2. LimiterInv => BurstIsBounded
  BY DEF LimiterInv, Bounded, BurstIsBounded
<1> QED BY <1>1, <1>2, LimiterStep, PTL DEF Spec
=============================================================================
