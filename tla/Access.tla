------------------------------- MODULE Access --------------------------------
(***************************************************************************)
(* Who gets in, and what the handlers of the API do to the shared tables.  *)
(*                                                                         *)
(* Handlers run in worker threads.  A login passes the rate limiter, asks  *)
(* TelegramMembership (a cache in front of getChatMember) and stores a     *)
(* session; an administrator's note and a batch of product events are      *)
(* transactions of several statements.  All threads share one connection,  *)
(* whose lock a `with db:` block holds (SerializedConnection); the command *)
(* line and the monitoring loop have connections of their own, which       *)
(* SQLite lets write only while no transaction is open.                    *)
(***************************************************************************)
EXTENDS Integers, Sequences, FiniteSets, FiniteSetsExt

CONSTANTS
    Users, Admins,  \* Telegram users, and the configured administrator
    Threads,        \* worker threads of the API
    Batches,        \* batches of product events clients send
    Invalid,        \* ids of events the schema rejects
    SessionLife,    \* session_minutes
    CacheLife,      \* cache_seconds
    AskTime,        \* a login takes no longer than this: the timeout of getChatMember
    Limit,          \* requests a minute, route and address: one comes back in a unit of time
    MaxKeys,        \* RateLimiter.max_keys
    MaxRequests,    \* bound: requests
    MaxMoves,       \* bound: joins and leaves of the group
    MaxRestarts,    \* bound: restarts of the API
    MaxTime         \* bound: the clock

None == "none"

ASSUME AccessAssumption ==
    /\ None \notin Threads
    /\ Admins \subseteq Users /\ \A batch \in Batches : batch # {}
    /\ {SessionLife, CacheLife, Limit, MaxKeys} \subseteq Nat \ {0}
    /\ {AskTime, MaxRequests, MaxMoves, MaxRestarts, MaxTime} \subseteq Nat

VARIABLES
    now,
    group,     \* who is in the Telegram group
    cache,     \* TelegramMembership._cache: user -> [at, role]
    buckets,   \* RateLimiter.buckets: key -> [tokens, updated, turn]; turn is its place in their order
    thread,    \* what each worker thread is doing
    owner,     \* the thread whose transaction holds the connection's lock
    draft,     \* the tables as the shared connection sees them
    db,        \* the tables as committed
    requests, moves, restarts,
    lastIn,    \* observer: when each user was last in the group
    passed     \* observer: when the requests of a key passed, as long as it has a bucket

vars == <<now, group, cache, buckets, thread, owner, draft, db, requests, moves, restarts, lastIn, passed>>

T == INSTANCE Tables WITH Times <- 0..(MaxTime + SessionLife)

Never == -1

Idle == [pc |-> "idle"]

Become(t, task) == thread' = [thread EXCEPT ![t] = task]

tables == <<owner, draft, db>>

outside == <<now, group, requests, moves, restarts, lastIn>>

-----------------------------------------------------------------------------
(* RateLimiter.allow *)

\* Buckets are kept by route and address; here every user has an address.
Keys == {"/sessions", "/analytics"} \X Users

\* Mutant: a bucket that was idle holds more than its size.
UncappedTokens(key) ==
    IF key \in DOMAIN buckets THEN buckets[key].tokens + now - buckets[key].updated ELSE Limit

\* The tokens of a key: a full bucket, or what is left and came back.
Tokens(key) ==
    IF key \in DOMAIN buckets THEN Min({Limit, buckets[key].tokens + now - buckets[key].updated}) ELSE Limit

Allowed(key) == Tokens(key) >= 1

\* The bucket is written back as the newest; beyond MaxKeys the oldest one goes.
Allow(key) ==
    LET left    == IF Allowed(key) THEN Tokens(key) - 1 ELSE Tokens(key)
        turn(k) == IF k = key THEN requests ELSE buckets[k].turn
        all     == DOMAIN buckets \cup {key}
        oldest  == CHOOSE k \in all : \A l \in all : turn(k) <= turn(l)
        kept    == IF Cardinality(all) > MaxKeys THEN all \ {oldest} ELSE all
    IN  /\ requests < MaxRequests /\ requests' = requests + 1
        /\ buckets' = [k \in kept |-> IF k = key THEN [tokens |-> left, updated |-> now, turn |-> requests]
                                     ELSE buckets[k]]
        /\ passed' = [k \in Keys |-> IF k \notin kept THEN <<>>
                                     ELSE IF k = key /\ Allowed(key) THEN Append(passed[k], now)
                                     ELSE passed[k]]

-----------------------------------------------------------------------------
(* POST /sessions: validate_telegram_init_data, role_for, create_session *)

Login(u, role, outage) == [pc |-> "create", user |-> u, role |-> role, since |-> now, outage |-> outage]

\* Mutant: a cached answer never grows old.
CachedForEver(u) == IF u \in DOMAIN cache THEN {cache[u].role} ELSE {}

\* The answer role_for gives without asking, if it has one.
Cached(u) == IF u \in DOMAIN cache /\ now - cache[u].at < CacheLife THEN {cache[u].role} ELSE {}

\* A login that is limited (429), has bad or old init data (401) or is refused (403)
\* leaves only the limiter's trace; the others go on to ask, or to their session.
PostSession(t, u, valid) ==
    /\ thread[t] = Idle /\ Allow(<<"/sessions", u>>)
    /\ Become(t, IF ~Allowed(<<"/sessions", u>>) \/ ~valid THEN Idle
                 ELSE IF u \in Admins THEN Login(u, "admin", FALSE)
                 ELSE IF Cached(u) # {}
                 THEN IF Cached(u) = {None} THEN Idle ELSE Login(u, "member", FALSE)
                 ELSE [pc |-> "ask", user |-> u, since |-> now,
                       last |-> IF u \in DOMAIN cache THEN cache[u].role ELSE None])
    /\ UNCHANGED <<now, group, cache, moves, restarts, lastIn, tables>>

\* Telegram looks at its group while the thread waits; it may also refuse to say (400
\* and 403, or an answer that is not ok), which counts as no.
TelegramAnswers(t) ==
    /\ thread[t].pc = "ask"
    /\ \E role \in {None} \cup (IF thread[t].user \in group THEN {"member"} ELSE {}) :
         Become(t, [pc |-> "told", user |-> thread[t].user, since |-> thread[t].since, role |-> role])
    /\ UNCHANGED <<cache, buckets, passed, outside, tables>>

\* The answer is remembered with the time it was asked for, whatever came in between.
Remember(t) ==
    LET u == thread[t].user
    IN  /\ thread[t].pc = "told"
        /\ cache' = [v \in DOMAIN cache \cup {u} |->
                       IF v = u THEN [at |-> thread[t].since, role |-> thread[t].role] ELSE cache[v]]
        /\ Become(t, IF thread[t].role = None THEN Idle
                     ELSE [Login(u, "member", FALSE) EXCEPT !.since = thread[t].since])
        /\ UNCHANGED <<buckets, passed, outside, tables>>

\* An outage: the last answer counts, however old; new faces wait.
AskFails(t) ==
    /\ thread[t].pc = "ask"
    /\ Become(t, IF thread[t].last = None THEN Idle
                 ELSE [Login(thread[t].user, "member", TRUE) EXCEPT !.since = thread[t].since])
    /\ UNCHANGED <<cache, buckets, passed, outside, tables>>

-----------------------------------------------------------------------------
(* The shared connection *)

\* Mutant: `with connection:` does not take the lock.
EnterUnlocked(t) == TRUE

\* SerializedConnection: a statement, and the whole of a `with` block, needs the lock.
Enter(t) == owner \in {None, t}

\* One statement inside a transaction of several.
Execute(t, tables1) == Enter(t) /\ owner' = t /\ draft' = tables1 /\ db' = db

\* The last statement and __exit__: commit, release.
Commit(t, tables1) == Enter(t) /\ owner' = None /\ draft' = tables1 /\ db' = tables1

\* __exit__ after an exception: everything the connection has not committed is undone.
Rollback(t) == Enter(t) /\ owner' = None /\ draft' = db /\ db' = db

\* Another process writes while no transaction of the API is open.
CommitElsewhere(tables1) == owner = None /\ db' = tables1 /\ draft' = tables1 /\ owner' = owner

CreateSession(t) ==
    /\ thread[t].pc = "create"
    /\ Commit(t, T!WithSession(draft, [user |-> thread[t].user, role |-> thread[t].role, status |-> "live",
                                       expires |-> now + SessionLife, outage |-> thread[t].outage]))
    /\ Become(t, Idle)
    /\ UNCHANGED <<cache, buckets, passed, outside>>

\* get_session
Live(d) == {i \in DOMAIN d.sessions : d.sessions[i].status = "live" /\ d.sessions[i].expires > now}

DeleteSession(t, i) ==
    /\ thread[t] = Idle /\ i \in DOMAIN draft.sessions /\ draft.sessions[i].status = "live"
    /\ requests < MaxRequests /\ requests' = requests + 1
    /\ Commit(t, T!WithEnded(draft, {i}, "revoked"))
    /\ UNCHANGED <<now, group, thread, cache, buckets, moves, restarts, lastIn, passed>>

\* require_session in front of an administrator's request, or of a batch.
RequireSession(t, i, task) ==
    /\ thread[t] = Idle /\ Enter(t) /\ i \in Live(draft)
    /\ Become(t, task)
    /\ UNCHANGED <<now, group, cache, moves, restarts, lastIn, tables>>

AdminRequest(t, i, pc) ==
    /\ i \in DOMAIN draft.sessions /\ draft.sessions[i].role = "admin"
    /\ requests < MaxRequests /\ requests' = requests + 1
    /\ RequireSession(t, i, [pc |-> pc]) /\ UNCHANGED <<buckets, passed>>

\* put_note: UPDATE the active ones, INSERT, commit; then the audit entry.
ReplaceNote(t) ==
    /\ thread[t].pc = "put"
    /\ Execute(t, T!WithNoNote(draft, "replaced"))
    /\ Become(t, [pc |-> "insert"])
    /\ UNCHANGED <<cache, buckets, passed, outside>>

InsertNote(t) ==
    /\ thread[t].pc = "insert"
    /\ Commit(t, T!WithNote(draft))
    /\ Become(t, [pc |-> "audit"])
    /\ UNCHANGED <<cache, buckets, passed, outside>>

DeleteNote(t) ==
    /\ thread[t].pc = "delete"
    /\ Commit(t, T!WithNoNote(draft, "deleted"))
    /\ Become(t, [pc |-> "audit"])
    /\ UNCHANGED <<cache, buckets, passed, outside>>

Audit(t) ==
    /\ thread[t].pc = "audit"
    /\ Commit(t, T!WithAudit(draft))
    /\ Become(t, Idle)
    /\ UNCHANGED <<cache, buckets, passed, outside>>

\* POST /analytics/events:batch: the limiter, the session, then accept_batch.
PostBatch(t, u, i, batch) ==
    /\ Allow(<<"/analytics", u>>) /\ i \in DOMAIN draft.sessions /\ draft.sessions[i].user = u
    /\ RequireSession(t, i, IF Allowed(<<"/analytics", u>>) THEN [pc |-> "batch", left |-> batch] ELSE Idle)

\* Each event is validated and inserted (or ignored as known); the first bad one raises.
AcceptEvent(t, e) ==
    /\ thread[t].pc = "batch" /\ e \in thread[t].left
    /\ IF e \in Invalid THEN Rollback(t) /\ Become(t, Idle)
       ELSE IF thread[t].left = {e} THEN Commit(t, T!WithEvents(draft, {e})) /\ Become(t, Idle)
       ELSE Execute(t, T!WithEvents(draft, {e})) /\ Become(t, [thread[t] EXCEPT !.left = @ \ {e}])
    /\ UNCHANGED <<cache, buckets, passed, outside>>

-----------------------------------------------------------------------------
(* The other processes, Telegram and time *)

\* vpn-pulse note set, clear.
NoteCommand(d) == {T!WithNote(T!WithNoNote(d, "replaced")), T!WithNoNote(d, "deleted"), T!WithAudit(d)}

CliNote ==
    /\ requests < MaxRequests /\ requests' = requests + 1
    /\ \E tables1 \in NoteCommand(db) : CommitElsewhere(tables1)
    /\ UNCHANGED <<now, group, cache, buckets, thread, moves, restarts, lastIn, passed>>

\* SqliteStore.sweep in the monitoring loop.  Sessions live minutes and the clock
\* counts them: no event or audit entry is old enough to go.
Sweep ==
    /\ CommitElsewhere(T!WithEnded(db, DOMAIN db.sessions \ Live(db), "swept"))
    /\ UNCHANGED <<thread, cache, buckets, passed, outside>>

Move(u) ==
    /\ moves < MaxMoves /\ moves' = moves + 1
    /\ group' = IF u \in group THEN group \ {u} ELSE group \cup {u}
    /\ lastIn' = [lastIn EXCEPT ![u] = now]
    /\ UNCHANGED <<now, cache, buckets, thread, requests, restarts, passed, tables>>

\* The API is killed and starts again: only the file is left.
Restart ==
    /\ restarts < MaxRestarts /\ restarts' = restarts + 1
    /\ cache' = [u \in {} |-> u] /\ buckets' = [k \in {} |-> k] /\ passed' = [k \in Keys |-> <<>>]
    /\ thread' = [t \in Threads |-> Idle] /\ owner' = None /\ draft' = db
    /\ UNCHANGED <<now, group, db, requests, moves, lastIn>>

Tick ==
    /\ now < MaxTime /\ now' = now + 1
    /\ \A t \in Threads : thread[t].pc \in {"ask", "told", "create"} => now < thread[t].since + AskTime
    /\ lastIn' = [u \in Users |-> IF u \in group THEN now' ELSE lastIn[u]]
    /\ UNCHANGED <<group, cache, buckets, thread, requests, moves, restarts, passed, tables>>

Init ==
    /\ now = 0 /\ group \in SUBSET (Users \ Admins)
    /\ lastIn = [u \in Users |-> IF u \in group THEN 0 ELSE Never]
    /\ cache = [u \in {} |-> u] /\ buckets = [k \in {} |-> k] /\ passed = [k \in Keys |-> <<>>]
    /\ thread = [t \in Threads |-> Idle] /\ owner = None
    /\ db = T!Empty /\ draft = db
    /\ requests = 0 /\ moves = 0 /\ restarts = 0

Handler(t) ==
    \/ \E u \in Users, valid \in BOOLEAN : PostSession(t, u, valid)
    \/ TelegramAnswers(t) \/ Remember(t) \/ AskFails(t) \/ CreateSession(t)
    \/ \E i \in DOMAIN draft.sessions :
         \/ DeleteSession(t, i)
         \/ \E pc \in {"put", "delete"} : AdminRequest(t, i, pc)
         \/ \E u \in Users, batch \in Batches : PostBatch(t, u, i, batch)
    \/ ReplaceNote(t) \/ InsertNote(t) \/ DeleteNote(t) \/ Audit(t)
    \/ \E e \in UNION Batches : AcceptEvent(t, e)

Next ==
    \/ \E t \in Threads : Handler(t)
    \/ CliNote \/ Sweep \/ Restart \/ Tick
    \/ \E u \in Users \ Admins : Move(u)

Spec == Init /\ [][Next]_vars

-----------------------------------------------------------------------------
(* Properties *)

\* README: the app is "only for members of your group".  Someone who is, or was not
\* long ago, in the group may hold a session: after leaving it, no longer than the
\* answer of Telegram is cached, the login took and the session lives.  Only when
\* Telegram did not answer an old member may come in, and never someone it had not
\* confirmed before.
OnlyMembersGetIn ==
    \A i \in Live(db) : LET s == db.sessions[i] IN
        \/ s.role = "admin" /\ s.user \in Admins
        \/ s.role = "member" /\ s.outage /\ lastIn[s.user] # Never
        \/ s.role = "member" /\ lastIn[s.user] # Never
           /\ now - lastIn[s.user] <= (CacheLife - 1) + AskTime + (SessionLife - 1)

\* security.py: however the requests of an address are spaced, no span of time passes
\* more of them than the bucket holds and gets back, until its bucket is evicted.
BurstIsBounded ==
    \A k \in Keys : \A i, j \in DOMAIN passed[k] :
        i <= j => j - i + 1 <= Limit + passed[k][j] - passed[k][i]

\* database.py: "`with connection:` transactions hold the lock for their whole body":
\* whatever the threads of the API, the command line and the loop interleave, and
\* whenever the API is killed or a batch is rejected, the tables change by whole
\* operations: at most one note is active, and no batch is stored in part.
TablesChangeWhole == T!Spec
=============================================================================
