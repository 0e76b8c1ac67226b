------------------------------ MODULE ProbeApi -------------------------------
(***************************************************************************)
(* The probe side of the API (api/app.py over SqliteStore): one-time       *)
(* enrollment codes, probe tokens, reports and the retention sweep.        *)
(*                                                                         *)
(* FastAPI runs every handler in a worker thread and all of them share one *)
(* connection; a lock makes each statement, and each `with db:` block,     *)
(* atomic (SerializedConnection).  A handler is therefore a sequence of    *)
(* these steps, and other handlers, or the sweep of the monitoring loop,   *)
(* run between them.                                                       *)
(***************************************************************************)
EXTENDS Integers, FiniteSets

CONSTANTS
    Codes,       \* enrollment codes
    Threads,     \* worker threads of the API
    Reports,     \* report ids a probe may use
    Bodies,      \* payloads they may carry
    CodeLife,    \* enrollment_minutes
    Freshness,   \* monitoring.freshness_seconds
    Retention,   \* retention.observations_days
    Skew,        \* bound: how far a probe's clock may be ahead
    MaxProbes,   \* bound: probes registered
    MaxTime      \* bound: the clock

ASSUME ApiAssumption ==
    /\ {CodeLife, Freshness, Retention, Skew, MaxProbes, MaxTime} \subseteq Nat
    /\ Freshness < Retention

VARIABLES
    now,
    codes,    \* probe_enrollments: code -> [kind, via, expires, used]
    issued,   \* codes drawn so far: secrets.token_urlsafe never repeats one
    probes,   \* probes, in the order they were registered: [code, status]
    reports,  \* probe_reports: report id -> [body, at]
    obs,      \* observations written for reports: [report, body, at]
    thread,   \* what each worker thread is doing
    ever      \* observer: every observation ever written

vars == <<now, codes, issued, probes, reports, obs, thread, ever>>

Idle == [pc |-> "idle"]

Become(t, task) == thread' = [thread EXCEPT ![t] = task]

-----------------------------------------------------------------------------
(* Enrollment *)

Kinds == {"pc", "abroad"}

CreateEnrollment(c, kind, via) ==
    /\ c \notin issued /\ issued' = issued \cup {c}
    /\ codes' = [d \in DOMAIN codes \cup {c} |->
                    IF d = c THEN [kind |-> kind, via |-> via, expires |-> now + CodeLife, used |-> FALSE]
                    ELSE codes[d]]
    /\ UNCHANGED <<now, probes, reports, obs, thread, ever>>

\* The administrator's route asks for no via server, ...
PostEnrollment(c, kind) == CreateEnrollment(c, kind, FALSE)

\* ... and `probe enroll`, in a process of its own, demands one for an abroad probe.
EnrollCommand(c, kind) == CreateEnrollment(c, kind, kind = "abroad")

\* An abroad probe without a via server is refused.
Complete(code) == code.kind = "abroad" => code.via

Usable(c) == c \in DOMAIN codes /\ ~codes[c].used /\ codes[c].expires > now

\* consume_enrollment reads the row; a missing, used or expired code is a 401.
ReadCode(t, c) ==
    /\ thread[t] = Idle /\ Usable(c)
    /\ Become(t, [pc |-> "consume", code |-> c, complete |-> Complete(codes[c])])
    /\ UNCHANGED <<now, codes, issued, probes, reports, obs, ever>>

\* ... and marks it used in a second transaction, whatever it has become.
ConsumeCode(t) ==
    /\ thread[t].pc = "consume"
    /\ codes' = [c \in DOMAIN codes |->
                    IF c = thread[t].code THEN [codes[c] EXCEPT !.used = TRUE] ELSE codes[c]]
    /\ Become(t, [thread[t] EXCEPT !.pc = "register"])
    /\ UNCHANGED <<now, issued, probes, reports, obs, ever>>

RegisterProbe(t) ==
    /\ thread[t].pc = "register" /\ thread[t].complete /\ Cardinality(DOMAIN probes) < MaxProbes
    /\ probes' = [i \in 1..(Cardinality(DOMAIN probes) + 1) |->
                    IF i \in DOMAIN probes THEN probes[i]
                    ELSE [code |-> thread[t].code, status |-> "active"]]
    /\ Become(t, Idle)
    /\ UNCHANGED <<now, codes, issued, reports, obs, ever>>

\* The code is used up, and the answer is a 400.
RefuseProbe(t) ==
    /\ thread[t].pc = "register" /\ ~thread[t].complete
    /\ Become(t, Idle)
    /\ UNCHANGED <<now, codes, issued, probes, reports, obs, ever>>

RevokeProbe(i) ==
    /\ probes[i].status # "revoked"
    /\ probes' = [probes EXCEPT ![i].status = "revoked"]
    /\ UNCHANGED <<now, codes, issued, reports, obs, thread, ever>>

\* The administrator's route; it answers 404 when there is nothing to revoke.
PostRevoke(i) == RevokeProbe(i)

\* `probe revoke` does the same in its own process, and shrugs then.
RevokeCommand(i) == RevokeProbe(i)

-----------------------------------------------------------------------------
(* Reports *)

\* probe_by_token: a revoked probe is nobody.
ProbeByToken(i) == probes[i].status # "revoked"

\* require_probe: the token of nobody is a 401.
RequireProbe(t, i, r, body, at) ==
    /\ thread[t] = Idle /\ ProbeByToken(i)
    /\ Become(t, [pc |-> "accept", probe |-> i, report |-> r, body |-> body, at |-> at])
    /\ UNCHANGED <<now, codes, issued, probes, reports, obs, ever>>

\* Mutant: the observations are written before the report is known to be new.
AcceptEveryReport(t) ==
    LET task == thread[t]
    IN  /\ task.pc = "accept"
        /\ reports' = [r \in DOMAIN reports \cup {task.report} |->
                         IF r \in DOMAIN reports THEN reports[r]
                         ELSE [body |-> task.body, at |-> task.at]]
        /\ obs' = obs \cup {[report |-> task.report, body |-> task.body, at |-> task.at]}
        /\ ever' = ever \cup obs'
        /\ Become(t, Idle)
        /\ UNCHANGED <<now, codes, issued, probes>>

\* accept_report, one transaction: a known report_id writes nothing (a duplicate,
\* or a 409 when the body differs), a new one writes its observations.
AcceptReport(t) ==
    LET task == thread[t]
        new  == task.report \notin DOMAIN reports
    IN  /\ task.pc = "accept"
        /\ reports' = IF new THEN [r \in DOMAIN reports \cup {task.report} |->
                                     IF r = task.report THEN [body |-> task.body, at |-> task.at]
                                     ELSE reports[r]]
                      ELSE reports
        /\ obs' = IF new THEN obs \cup {[report |-> task.report, body |-> task.body, at |-> task.at]}
                  ELSE obs
        /\ ever' = ever \cup obs'
        /\ Become(t, Idle)
        /\ UNCHANGED <<now, codes, issued, probes>>

-----------------------------------------------------------------------------
(* The monitoring loop, in a process of its own, sweeps the same tables. *)
\* Mutant: the horizon is the present.
SweepTooMuch ==
    LET kept == {o \in obs : o.at >= now}
    IN  /\ codes' = [c \in {d \in DOMAIN codes : ~codes[d].used /\ codes[d].expires > now} |-> codes[c]]
        /\ obs' = kept
        /\ reports' = [r \in {q \in DOMAIN reports : \E o \in kept : o.report = q} |-> reports[r]]
        /\ UNCHANGED <<now, issued, probes, thread, ever>>

Sweep ==
    LET horizon == now - Retention
        kept    == {o \in obs : o.at >= horizon}
    IN  /\ codes' = [c \in {d \in DOMAIN codes : ~codes[d].used /\ codes[d].expires > now} |-> codes[c]]
        /\ obs' = kept
        /\ reports' = [r \in {q \in DOMAIN reports : \/ reports[q].at >= horizon
                                                     \/ \E o \in kept : o.report = q} |-> reports[r]]
        /\ UNCHANGED <<now, issued, probes, thread, ever>>

Tick == now < MaxTime /\ now' = now + 1 /\ UNCHANGED <<codes, issued, probes, reports, obs, thread, ever>>

Init ==
    /\ now = 0 /\ codes = [c \in {} |-> c] /\ issued = {} /\ probes = [i \in {} |-> i]
    /\ reports = [r \in {} |-> r] /\ obs = {} /\ ever = {} /\ thread = [t \in Threads |-> Idle]

Enrolling == \E t \in Threads : ConsumeCode(t) \/ RegisterProbe(t) \/ RefuseProbe(t)
                                 \/ \E c \in Codes : ReadCode(t, c)

\* A report may be of any age, and from the future: nothing checks its time.
Reporting ==
    \E t \in Threads :
        \/ AcceptReport(t)
        \/ \E i \in DOMAIN probes, r \in Reports, body \in Bodies, at \in 0..(now + Skew) :
              RequireProbe(t, i, r, body, at)

Next ==
    \/ \E c \in Codes, kind \in Kinds : PostEnrollment(c, kind) \/ EnrollCommand(c, kind)
    \/ Enrolling \/ Reporting
    \/ \E i \in DOMAIN probes : PostRevoke(i) \/ RevokeCommand(i)
    \/ Sweep \/ Tick

Spec == Init /\ [][Next]_vars

-----------------------------------------------------------------------------
(* Properties *)

\* architecture.md: "enrollment codes are single-use": a code registers one probe.
SingleUse ==
    \A i, j \in DOMAIN probes : probes[i].code = probes[j].code => i = j

\* store.py: reports are "idempotent by report_id": however many threads bring the
\* same id, with the same or another body, and whenever the sweep runs, the
\* evidence holds one observation for it, that of the stored report.
OneObservationPerReport ==
    \A o \in obs : /\ o.report \in DOMAIN reports
                   /\ reports[o.report] = [body |-> o.body, at |-> o.at]

\* architecture.md: "Duplicate reports never produce duplicate messages": a report
\* resent after the sweep forgot it is stored again, and is by then too old to count.
ResentIsNotFresh ==
    [][\A o \in obs' : o \notin obs /\ o \in ever => o.at + Freshness < now]_vars
=============================================================================
