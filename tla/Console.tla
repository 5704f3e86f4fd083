---------------------------------- MODULE Console ---------------------------------
(* Browser tabs of the web console (web/src/auth, lib/api.ts, App.tsx,          *)
(* LoginPage.tsx) on top of the API replicas of Access.  A tab keeps the token  *)
(* in sessionStorage, which survives a reload, and who is logged in in React    *)
(* state, which does not.  A request runs while the tab does other things; its  *)
(* answer, or the 15 s timeout, finds the tab as it is then.                    *)
EXTENDS Access

CONSTANTS
  Tabs,
  Of         \* the tab a request belongs to

ASSUME TabsAssumption == Of \in [Requests -> Tabs]

VARIABLES
  stored,    \* session.getToken()
  shown,     \* user # null
  loading,   \* the session is being restored
  path,      \* "login", or "app" for every page behind ProtectedRoute
  waiting    \* what will be done with a request's answer, "nobody" if it is dropped

tabs == <<stored, shown, loading, path, waiting>>
vars == <<apiVars, tabs>>

Init ==
  /\ ApiInit
  /\ stored = [t \in Tabs |-> NoToken]
  /\ shown = [t \in Tabs |-> FALSE]
  /\ loading = [t \in Tabs |-> FALSE]
  /\ path = [t \in Tabs |-> "login"]
  /\ waiting = [q \in Requests |-> "nobody"]

\* A tab's state is set and rendered: ProtectedRoute sends a tab without a user
\* to the login page, LoginPage sends one with a user to the application.
Show(t, token, user_, busy, at) ==
  /\ stored' = [stored EXCEPT ![t] = token]
  /\ shown' = [shown EXCEPT ![t] = user_]
  /\ loading' = [loading EXCEPT ![t] = busy]
  /\ path' = [path EXCEPT ![t] =
       IF user_ THEN "app" ELSE IF busy THEN at ELSE "login"]

\* request(): the token is read from the session when the request is made.
Send(q, kind, use) ==
  /\ req[q].step = "free"
  /\ req' = [req EXCEPT ![q] = [Free EXCEPT !.step = "sent", !.kind = kind,
                                            !.token = stored[Of[q]]]]
  /\ audited' = audited \ {q}
  /\ waiting' = [waiting EXCEPT ![q] = use]
  /\ UNCHANGED <<now, user, processes, faults>>

\* The tab is reloaded, maybe at another address: what was under way is dropped,
\* and AuthProvider's effect asks who the stored token belongs to.
Reload(t) ==
  /\ \E at \in {"login", "app"} : Show(t, stored[t], FALSE, stored[t] # NoToken, at)
  /\ LET dropped == [q \in Requests |-> IF Of[q] = t THEN "nobody" ELSE waiting[q]]
     IN \/ /\ stored[t] = NoToken
           /\ waiting' = dropped
           /\ UNCHANGED apiVars
        \/ /\ stored[t] # NoToken
           /\ \E q \in Requests :
                /\ Of[q] = t /\ req[q].step = "free"
                /\ req' = [req EXCEPT ![q] = [Free EXCEPT !.step = "sent", !.kind = "me",
                                                          !.token = stored[t]]]
                /\ audited' = audited \ {q}
                /\ waiting' = [dropped EXCEPT ![q] = "mount"]
           /\ UNCHANGED <<now, user, processes, faults>>

\* LoginPage.submit.  The page does not wait for loading.  Its button is disabled
\* while its login is under way, but the page may be left and come back meanwhile.
SubmitLogin(q) ==
  /\ path[Of[q]] = "login"
  /\ Send(q, "login", "login")
  /\ UNCHANGED <<stored, shown, loading, path>>

\* A page of the application asks for something.
Load(q) ==
  /\ path[Of[q]] = "app" /\ shown[Of[q]]
  /\ Send(q, "api", "page")
  /\ UNCHANGED <<stored, shown, loading, path>>

\* Who logs out forgets the token and the user.
Logout(t) ==
  /\ path[t] = "app" /\ shown[t]
  /\ Show(t, NoToken, FALSE, loading[t], path[t])
  /\ UNCHANGED <<apiVars, waiting>>

Dropped(q) == waiting' = [waiting EXCEPT ![q] = "nobody"]

\* An answer the tab can use.
Succeeds(q) ==
  LET t == Of[q]
  IN /\ req[q].step = "answered" /\ req[q].answer = "ok"
     /\ \/ waiting[q] = "login" /\ Show(t, req[q].token, TRUE, loading[t], "app")
        \/ waiting[q] = "mount" /\ Show(t, stored[t], TRUE, FALSE, "app")
        \/ waiting[q] = "page" /\ UNCHANGED <<stored, shown, loading, path>>
     /\ Dropped(q)
     /\ req' = [req EXCEPT ![q] = Free]
     /\ UNCHANGED <<now, user, audited, processes, faults>>

\* What a tab does about an error: request() clears the session on 401, the
\* effect of AuthProvider on any error.  Nobody but the effect changes loading,
\* and nobody changes the user.
Reject(q, unauthorized) ==
  LET t == Of[q]
      token == IF unauthorized \/ waiting[q] = "mount" THEN NoToken ELSE stored[t]
  IN Show(t, token, shown[t], loading[t] /\ waiting[q] # "mount", path[t])

\* An answer that is an error, or a connection that broke.
IsRejected(q) ==
  /\ req[q].step = "answered" /\ req[q].answer # "ok"
  /\ waiting[q] # "nobody"
  /\ Reject(q, req[q].answer = "unauthorized")
  /\ Dropped(q)
  /\ req' = [req EXCEPT ![q] = Free]
  /\ UNCHANGED <<now, user, audited, processes, faults>>

\* Faulty variant: fetch without the AbortController.
TimeoutNever(q) == FALSE /\ UNCHANGED vars

\* The AbortController's 15 s pass; the handler may still be at work.
Timeout(q) ==
  /\ req[q].step # "free"
  /\ waiting[q] # "nobody"
  /\ Reject(q, FALSE)
  /\ Dropped(q)
  /\ UNCHANGED apiVars

\* An answer nobody waits for is dropped; a handler whose client went away is
\* cancelled, unless it ends before it notices.
Vanish(q) ==
  /\ waiting[q] = "nobody"
  /\ req[q].step # "free"
  /\ req' = [req EXCEPT ![q] = Free]
  /\ UNCHANGED <<now, user, audited, processes, faults, tabs>>

Tab(t) == Reload(t) \/ Logout(t)

Browser(q) ==
  \/ SubmitLogin(q)
  \/ Load(q)
  \/ Succeeds(q)
  \/ IsRejected(q)
  \/ Timeout(q)
  \/ Vanish(q)

Next ==
  \/ ApiNext /\ UNCHANGED tabs
  \/ \E t \in Tabs : Tab(t)
  \/ \E q \in Requests : Browser(q)

Spec == Init /\ [][Next]_vars

\* Timers fire, and Shutdown sees when the last request is done.  Nothing is
\* assumed of handlers, of the database or of the network.
Fairness ==
  /\ \A r \in Replicas : WF_apiVars(Deadline(r)) /\ WF_apiVars(Shutdown(r))
  /\ \A q \in Requests : WF_vars(Timeout(q))

FairSpec == Spec /\ Fairness

----------------------------------------------------------------------------------
(* Properties                                                                   *)

Kinds == {"login", "me", "api"}
Steps == {"free", "sent", "accepted", "found", "signed", "answered"}
Answers == {"none", "ok", "unauthorized", "forbidden", "error", "lost"}
Phases == {"stopped", "failed", "finding", "creating", "rereading", "serving", "draining"}
RequestRecords ==
  [step : Steps, kind : Kinds, at : Replicas \cup {NoReplica}, token : Tokens \cup {NoToken},
   found : Nat, answer : Answers]

\* The domain of every variable.
TypeOK ==
  /\ now \in Nat
  /\ password \in Passwords \cup {Unset}
  /\ disabledAt \in Nat \cup {Never}
  /\ audited \in SUBSET Requests
  /\ phase \in [Replicas -> Phases]
  /\ config \in [Replicas -> Configurations]
  /\ excused \in SUBSET Replicas
  /\ req \in [Requests -> RequestRecords]
  /\ faults \in Nat
  /\ stored \in [Tabs -> Tokens \cup {NoToken}]
  /\ shown \in [Tabs -> BOOLEAN]
  /\ loading \in [Tabs -> BOOLEAN]
  /\ path \in [Tabs -> {"login", "app"}]
  /\ waiting \in [Requests -> {"nobody", "login", "mount", "page"}]

\* docs/operations.md:29: a user that exists keeps its password, however many
\* replicas start with whatever BOOTSTRAP_USER_PASSWORD.
BootstrapNeverResets == [][password # Unset => password' = password]_vars

\* bootstrap.go:30: losing the race to create the user is not an error.  A
\* replica ends with an error only if its configuration is refused or something
\* failed or timed out in its own life, never because of what others do.
RaceIsNoError ==
  \A r \in Replicas : phase[r] = "failed" => r \in excused \/ ~Complete(config[r])

\* No token leaves the API before the login it stems from is in the audit log.
IssuedIsAudited ==
  \A q \in Requests :
    (req[q].kind = "login" /\ req[q].step = "answered" /\ req[q].answer = "ok")
      => q \in audited

\* Whoever holds a token: a tab that stored it, a login's answer that a tab may
\* still store, a request that presents it.
Bears(q) ==
  \/ req[q].kind # "login" /\ req[q].step = "sent"
  \/ req[q].kind = "login" /\ req[q].step = "answered" /\ req[q].answer = "ok"
InHands ==
  ({stored[t] : t \in Tabs} \cup {req[q].token : q \in {p \in Requests : Bears(p)}}) \ {NoToken}

\* The requests that were let in.
LetIn(q) == req[q].kind # "login" /\ req[q].step = "accepted"
AtWork == {req[q].token : q \in {p \in Requests : LetIn(p)}}

\* All replicas and tabs together keep what one account is promised: whatever is
\* stored, dropped, timed out or cut short, a token comes into the world by a
\* login that found the account active, and is let in while it lasts.
AccountOf == INSTANCE Account WITH held <- InHands, used <- AtWork
ImplementsAccount == AccountOf!Spec

\* Whom a disabled account lets in, and how long: a request is let through only
\* with a token whose login found the account active, and only for JWT_EXPIRES_IN,
\* give or take how far two clocks are apart.
AccessEnds ==
  [][\A q \in Requests :
       (req[q].step = "sent" /\ req[q].kind # "login" /\ req'[q].step = "accepted") =>
         /\ disabledAt # Never => req[q].token.found <= disabledAt
         /\ now < req[q].token.at + TTL
                    + Skew[req[q].token.by] - Skew[req'[q].at]]_vars

\* requirements.md:23: a replica that is told to stop and has the time leaves no
\* request behind: whoever still works on one has not ended.
NoneCutShort ==
  \A q \in Requests : InProgress(q) => phase[req[q].at] \in {"serving", "draining"}

\* Whatever becomes of handlers, the database and the network, nobody waits for
\* ever: a replica that is told to stop does, even if a handler hangs, and every
\* request of a tab is settled, so that busy buttons and loading screens end.
NothingHangs ==
  /\ \A r \in Replicas : (phase[r] = "draining") ~> (phase[r] # "draining")
  /\ \A q \in Requests : (waiting[q] # "nobody") ~> (waiting[q] = "nobody")

\* A tab that restores its session has a request under way that will end that:
\* no answer, timeout, logout or reload leaves it at the loading screen.
LoadingIsWaiting ==
  \A t \in Tabs : loading[t] => \E q \in Requests : Of[q] = t /\ waiting[q] = "mount"

\* docs/frontend.md:36: on a 401 the local session is cleared and the console
\* returns to the login page.
UnauthorizedShowsLogin ==
  [][\A q \in Requests :
       (waiting[q] # "nobody" /\ req[q].answer = "unauthorized" /\ req'[q] = Free) =>
         stored'[Of[q]] = NoToken /\ path'[Of[q]] = "login"]_vars

----------------------------------------------------------------------------------
(* The invariants above, strengthened until a step preserves them               *)

\* A login that found the account active did so before it was disabled, and every
\* token somebody holds stems from such a login.
FoundActive(time) == time <= now /\ (disabledAt # Never => time <= disabledAt)
Holds(token) == token # NoToken => FoundActive(token.found)
TokensStemFromLogins ==
  /\ disabledAt # Never => disabledAt <= now
  /\ \A t \in Tabs : Holds(stored[t])
  /\ \A q \in Requests : Holds(req[q].token)
  /\ \A q \in Requests : req[q].step = "found" => FoundActive(req[q].found)

\* Who looks for the user again after an error finds it, or met a fault.
LosersFindTheRow ==
  \A r \in Replicas : phase[r] = "rereading" => password # Unset \/ r \in excused

\* Who compared a password knows there is one, and what was signed is a token of
\* this login.
LoginsSign ==
  /\ \A q \in Requests : req[q].step \in {"found", "signed"} => password # Unset
  /\ \A q \in Requests : req[q].step = "signed" =>
       /\ req[q].token # NoToken
       /\ req[q].token.found <= req[q].token.at /\ req[q].token.at <= now

\* Who waits for a token has sent a login.
LoginsAsked == \A q \in Requests : waiting[q] = "login" => req[q].kind = "login"

\* Nobody waits for a request that is not under way.
FreeIsForgotten == \A q \in Requests : req[q].step = "free" => waiting[q] = "nobody"

\* A request in progress is so at some replica.
ProgressIsSomewhere == \A q \in Requests : InProgress(q) => req[q].at \in Replicas

\* The inductive invariant.
IInv ==
  /\ TypeOK
  /\ ProgressIsSomewhere
  /\ TokensStemFromLogins
  /\ LosersFindTheRow
  /\ RaceIsNoError
  /\ IssuedIsAudited
  /\ NoneCutShort
  /\ FreeIsForgotten
  /\ LoadingIsWaiting
===================================================================================
