------------------------------- MODULE Tables --------------------------------
(***************************************************************************)
(* What the store promises the API: the tables change by whole operations, *)
(* as if each handler, the `vpn-pulse note` command and the sweep of the   *)
(* monitoring loop had the database to itself.  Access implements it with  *)
(* statements of several threads over one shared connection.               *)
(***************************************************************************)
EXTENDS Naturals, Sequences

CONSTANTS
    Users,     \* Telegram users
    Times,     \* expiry times of sessions
    Batches,   \* batches of product events clients may send: sets of event ids
    Invalid    \* the ids whose event the schema rejects

VARIABLE db    \* the committed tables: [sessions, notes, audit, events]

Empty == [sessions |-> <<>>, notes |-> <<>>, audit |-> 0, events |-> {}]

WithSession(d, s) == [d EXCEPT !.sessions = Append(@, s)]

\* revoke_session, and the rows the sweep deletes.
WithEnded(d, ended, status) ==
    [d EXCEPT !.sessions = [i \in DOMAIN @ |-> IF i \in ended THEN [@[i] EXCEPT !.status = status] ELSE @[i]]]

\* The notes that are shown become replaced or deleted ones.
WithNoNote(d, status) ==
    [d EXCEPT !.notes = [i \in DOMAIN @ |-> IF @[i] = "active" THEN status ELSE @[i]]]

WithNote(d) == [d EXCEPT !.notes = Append(@, "active")]

WithAudit(d) == [d EXCEPT !.audit = @ + 1]

WithEvents(d, ids) == [d EXCEPT !.events = @ \cup ids]

Sessions == [user : Users, role : {"member", "admin"}, expires : Times, status : {"live"}, outage : BOOLEAN]

Next ==
    \/ \E s \in Sessions : db' = WithSession(db, s)
    \/ \E ended \in SUBSET (DOMAIN db.sessions), status \in {"revoked", "swept"} :
         db' = WithEnded(db, ended, status)
    \/ db' = WithNote(WithNoNote(db, "replaced"))
    \/ db' = WithNoNote(db, "deleted")
    \/ db' = WithAudit(db)
    \/ \E batch \in Batches : batch \cap Invalid = {} /\ db' = WithEvents(db, batch)

Spec == db = Empty /\ [][Next]_db
=============================================================================
