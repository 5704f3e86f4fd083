---------------------------------- MODULE Access ----------------------------------
(* Who may use the API (internal/auth, cmd/api): the replicas of the API        *)
(* process start, create the first user, answer logins and requests that carry  *)
(* a token, and stop.  They share one MySQL database and one JWT secret, and    *)
(* nothing else: a token is a signed statement no replica remembers.            *)
(*                                                                              *)
(* One account is modelled, the one BOOTSTRAP_USER_USERNAME names.  A database  *)
(* statement or transaction is one step; the clients are in Console.            *)
EXTENDS Integers

CONSTANTS
  Replicas,    \* the API processes
  NoReplica,   \* a request no process has taken
  Skew,        \* how far a replica's clock runs ahead of true time
  Requests,    \* HTTP requests that may be under way at once
  NoToken,     \* no Authorization header, or no token in an answer
  Passwords,   \* passwords that may be configured
  Unset,       \* BOOTSTRAP_USER_PASSWORD is empty; no users row
  Configs,     \* the configurations each replica may be started with
  Never,       \* the account was not disabled
  TTL,         \* JWT_EXPIRES_IN, in ticks
  MaxNow,      \* bound: ticks in one behaviour
  MaxFaults    \* bound: failed statements and killed processes in one behaviour

ASSUME ReplicasAssumption == NoReplica \notin Replicas /\ Skew \in [Replicas -> Nat]
\* What run() makes of BOOTSTRAP_USER_USERNAME, BOOTSTRAP_USER_PASSWORD and of
\* ALERTMANAGER_WEBHOOK_TOKEN, which must be there and differ from JWT_SECRET.
Configurations == [named : BOOLEAN, password : Passwords \cup {Unset}, hooked : BOOLEAN]
Blank == [named |-> FALSE, password |-> Unset, hooked |-> TRUE]

ASSUME ConfigsAssumption ==
  /\ Unset \notin Passwords
  /\ Configs \in [Replicas -> SUBSET Configurations]
ASSUME TimesAssumption == TTL \in Nat \ {0} /\ MaxNow \in Nat /\ MaxFaults \in Nat
ASSUME NeverAssumption == Never \notin Nat

\* A token tells who signed it and when; found is when its login read the row.
Tokens == [by : Replicas, at : Nat, found : Nat]
ASSUME NoTokenAssumption == NoToken \notin Tokens

VARIABLES
  now,         \* true time
  \* users
  password,    \* the password behind the row's hash, Unset while there is no row
  disabledAt,  \* when the account was disabled
  audited,     \* the requests whose login success is in audit_logs
  \* the replicas
  phase,       \* where run() is
  config,      \* what a starting replica was started with
  excused,     \* the replicas that met an error or a timeout in their life
  \* requests
  req,
  faults       \* faults so far

user == <<password, disabledAt>>
processes == <<phase, config, excused>>
apiVars == <<now, user, audited, processes, req, faults>>

Fault == faults < MaxFaults /\ faults' = faults + 1
NoFault == UNCHANGED faults

\* What a request is: step tells how far it is, at which replica, answer what came back.
Free == [step |-> "free", kind |-> "api", at |-> NoReplica, token |-> NoToken,
         found |-> 0, answer |-> "none"]
Answer(q, a) ==
  [req[q] EXCEPT !.step = "answered", !.answer = a, !.at = NoReplica, !.found = 0]
InProgress(q) == req[q].step \in {"accepted", "found", "signed"}

\* Half a bootstrap user is refused.
Partial(c) == c.named # (c.password # Unset)
Complete(c) == ~Partial(c) /\ c.hooked

ApiInit ==
  /\ now = 0
  /\ password = Unset
  /\ disabledAt = Never
  /\ audited = {}
  /\ phase = [r \in Replicas |-> "stopped"]
  /\ config = [r \in Replicas |-> Blank]
  /\ excused = {}
  /\ req = [q \in Requests |-> Free]
  /\ faults = 0

----------------------------------------------------------------------------------
(* Start: run() up to ListenAndServe                                            *)

Enter(r, p) == phase' = [phase EXCEPT ![r] = p]

\* An error ends run(); the process exits with status 1.
Fails(r) ==
  Enter(r, "failed") /\ Fault /\ excused' = excused \cup {r} /\ UNCHANGED config

Stays == NoFault /\ UNCHANGED <<config, excused>>

\* After Bootstrap, run() looks at the webhook token and starts to serve.
Bootstrapped(r) ==
  /\ NoFault
  /\ \/ /\ config[r].hooked
        /\ Enter(r, "serving")
        /\ config' = [config EXCEPT ![r] = Blank]
        /\ excused' = excused \ {r}
     \/ /\ ~config[r].hooked
        /\ Enter(r, "failed")
        /\ UNCHANGED <<config, excused>>

\* A replica is started, possibly with another configuration than before.
Start(r) ==
  /\ phase[r] \in {"stopped", "failed"}
  /\ Enter(r, "finding")
  /\ \E c \in Configs[r] : config' = [config EXCEPT ![r] = c]
  /\ excused' = excused \ {r}
  /\ UNCHANGED <<now, user, audited, req, faults>>

\* Bootstrap before its first statement: nothing to do, or refused.
SkipBootstrap(r) ==
  /\ phase[r] = "finding"
  /\ \/ ~config[r].named /\ config[r].password = Unset /\ Bootstrapped(r)
     \/ Partial(config[r]) /\ Enter(r, "failed") /\ Stays
  /\ UNCHANGED <<now, user, audited, req>>

\* FindByUsername: if the user is there, its password is left alone.
FindUser(r) ==
  /\ phase[r] = "finding"
  /\ config[r].named /\ config[r].password # Unset
  /\ \/ password # Unset /\ Bootstrapped(r)
     \/ password = Unset /\ Enter(r, "creating") /\ Stays
     \/ Fails(r)
  /\ UNCHANGED <<now, user, audited, req>>

\* Faulty variant: INSERT ... ON DUPLICATE KEY UPDATE.
CreateUserUpsert(r) ==
  /\ phase[r] = "creating"
  /\ password' = config[r].password
  /\ Bootstrapped(r)
  /\ UNCHANGED <<now, disabledAt, audited, req>>

\* Faulty variant: takes every error for a failure.
CreateUserOrFail(r) ==
  /\ phase[r] = "creating"
  /\ \/ password = Unset /\ password' = config[r].password /\ Bootstrapped(r)
     \/ /\ password # Unset
        /\ Enter(r, "failed")
        /\ UNCHANGED password
        /\ Stays
  /\ UNCHANGED <<now, disabledAt, audited, req>>

\* CreateUser: the unique key lets one replica win.  On any error, a duplicate
\* key or a reply that got lost, Bootstrap looks for the row again.
CreateUser(r) ==
  /\ phase[r] = "creating"
  /\ \/ password = Unset /\ password' = config[r].password /\ Bootstrapped(r)
     \/ /\ password # Unset
        /\ Enter(r, "rereading")
        /\ UNCHANGED password
        /\ Stays
     \/ /\ Enter(r, "rereading")
        /\ Fault
        /\ excused' = excused \cup {r}
        /\ UNCHANGED config
        /\ password' \in {password, IF password = Unset THEN config[r].password ELSE password}
  /\ UNCHANGED <<now, disabledAt, audited, req>>

\* FindByUsername after the error.
RereadUser(r) ==
  /\ phase[r] = "rereading"
  /\ \/ password # Unset /\ Bootstrapped(r)
     \/ password = Unset /\ Enter(r, "failed") /\ Stays
     \/ Fails(r)
  /\ UNCHANGED <<now, user, audited, req>>

----------------------------------------------------------------------------------
(* Stop                                                                         *)

\* SIGTERM while serving.  Shutdown closes the listener.
Signal(r) ==
  /\ phase[r] = "serving"
  /\ Enter(r, "draining")
  /\ UNCHANGED <<now, user, audited, config, excused, req, faults>>

\* Requests a process leaves behind when it ends.
Cut(r) ==
  req' = [q \in Requests |->
            IF InProgress(q) /\ req[q].at = r
            THEN Answer(q, "lost")
            ELSE req[q]]

\* Faulty variant: server.Close, or no Shutdown at all.
ShutdownAtOnce(r) ==
  /\ phase[r] = "draining"
  /\ Enter(r, "stopped")
  /\ UNCHANGED <<now, user, audited, config, excused, req, faults>>

\* Shutdown returns when no request is in progress; run() ends without error.
Shutdown(r) ==
  /\ phase[r] = "draining"
  /\ \A q \in Requests : InProgress(q) => req[q].at # r
  /\ Enter(r, "stopped")
  /\ UNCHANGED <<now, user, audited, config, excused, req, faults>>

\* SERVER_SHUTDOWN_TIMEOUT passes first; run() ends with an error.
Deadline(r) ==
  /\ phase[r] = "draining"
  /\ \E q \in Requests : InProgress(q) /\ req[q].at = r
  /\ Enter(r, "failed")
  /\ excused' = excused \cup {r}
  /\ Cut(r)
  /\ UNCHANGED <<now, user, audited, config, faults>>

\* The process is killed, ListenAndServe fails, or SIGTERM comes before anybody
\* listens for it.
Kill(r) ==
  /\ phase[r] \notin {"stopped", "failed"}
  /\ Fails(r)
  /\ Cut(r)
  /\ UNCHANGED <<now, user, audited>>

----------------------------------------------------------------------------------
(* Requests                                                                     *)

Becomes(q, record) == req' = [req EXCEPT ![q] = record]

\* Faulty variant: no expiry.
ValidForever(t, r) == t # NoToken

\* TokenManager.Parse: signed by one of us, and not expired by this clock.
Valid(t, r) == t # NoToken /\ now + Skew[r] < t.at + Skew[t.by] + TTL

\* A replica takes a request; for a protected one the middleware looks at the
\* token, and only at the token.
Accept(q, r) ==
  /\ req[q].step = "sent"
  /\ phase[r] = "serving"
  /\ Becomes(q, IF req[q].kind = "login" \/ Valid(req[q].token, r)
                 THEN [req[q] EXCEPT !.step = "accepted", !.at = r]
                 ELSE Answer(q, "unauthorized"))
  /\ UNCHANGED <<now, user, audited, processes, faults>>

\* Service.Me: any error, a missing row and a disabled account look the same.
Me(q) ==
  /\ req[q].step = "accepted" /\ req[q].kind = "me"
  /\ \/ /\ password # Unset /\ disabledAt = Never
        /\ Becomes(q, Answer(q, "ok"))
        /\ NoFault
     \/ /\ password = Unset \/ disabledAt # Never
        /\ Becomes(q, Answer(q, "unauthorized"))
        /\ NoFault
     \/ Becomes(q, Answer(q, "unauthorized")) /\ Fault
  /\ UNCHANGED <<now, user, audited, processes>>

\* Any other protected handler: it does not look at the account.
Handle(q) ==
  /\ req[q].step = "accepted" /\ req[q].kind = "api"
  /\ \/ Becomes(q, Answer(q, "ok")) /\ NoFault
     \/ Becomes(q, Answer(q, "error")) /\ Fault
  /\ UNCHANGED <<now, user, audited, processes>>

\* Service.Login reads the row and compares the password p.  A database error is
\* answered like a wrong password; recordFailure's own error is ignored.
Find(q, p) ==
  /\ req[q].step = "accepted" /\ req[q].kind = "login"
  /\ \/ /\ password # Unset /\ p = password
        /\ Becomes(q, IF disabledAt = Never
                      THEN [req[q] EXCEPT !.step = "found", !.found = now]
                      ELSE Answer(q, "forbidden"))
        /\ NoFault
     \/ password # p /\ Becomes(q, Answer(q, "unauthorized")) /\ NoFault
     \/ Becomes(q, Answer(q, "unauthorized")) /\ Fault
  /\ UNCHANGED <<now, user, audited, processes>>

\* TokenManager.Generate, after the password was compared.
Generate(q) ==
  /\ req[q].step = "found"
  /\ Becomes(q, [req[q] EXCEPT
       !.step = "signed",
       !.token = [by |-> req[q].at, at |-> now, found |-> req[q].found]])
  /\ UNCHANGED <<now, user, audited, processes, faults>>

\* The answer without the token.
Refuse(q) == [Answer(q, "error") EXCEPT !.token = NoToken]

\* Faulty variant: the entry is written at best effort, like a failure's.
RecordSuccessIgnored(q) ==
  /\ req[q].step = "signed"
  /\ Becomes(q, Answer(q, "ok"))
  /\ \/ audited' = audited \cup {q} /\ NoFault
     \/ UNCHANGED audited /\ Fault
  /\ UNCHANGED <<now, user, processes>>

\* RecordSuccess: last_login_at and the audit entry in one transaction.  The
\* token is handed out after it committed; if it failed, or its reply got lost,
\* the client gets an error.
RecordSuccess(q) ==
  /\ req[q].step = "signed"
  /\ \/ audited' = audited \cup {q} /\ Becomes(q, Answer(q, "ok")) /\ NoFault
     \/ audited' \in {audited, audited \cup {q}} /\ Becomes(q, Refuse(q)) /\ Fault
  /\ UNCHANGED <<now, user, processes>>

----------------------------------------------------------------------------------
(* The world around                                                             *)

\* Somebody disables the account by hand; there is no operation for it.
Disable ==
  /\ password # Unset /\ disabledAt = Never
  /\ disabledAt' = now
  /\ UNCHANGED <<now, password, audited, processes, req, faults>>

Tick ==
  /\ now < MaxNow
  /\ now' = now + 1
  /\ UNCHANGED <<user, audited, processes, req, faults>>

Process(r) ==
  \/ Start(r)
  \/ SkipBootstrap(r)
  \/ FindUser(r)
  \/ CreateUser(r)
  \/ RereadUser(r)
  \/ Signal(r)
  \/ Shutdown(r)
  \/ Deadline(r)
  \/ Kill(r)

Serve(q) ==
  \/ \E r \in Replicas : Accept(q, r)
  \/ Me(q)
  \/ Handle(q)
  \/ \E p \in Passwords : Find(q, p)
  \/ Generate(q)
  \/ RecordSuccess(q)

ApiNext ==
  \/ \E r \in Replicas : Process(r)
  \/ \E q \in Requests : Serve(q)
  \/ Disable
  \/ Tick
===================================================================================
