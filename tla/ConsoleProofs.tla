------------------------------- MODULE ConsoleProofs ------------------------------
(* Machine-checked proofs about Access and Console, for any number of replicas, *)
(* tabs and requests under way, any configurations, clocks, expiry and faults.  *)
(*                                                                              *)
(* IInv is inductive.  The proof goes by who acts: a replica's process (start   *)
(* and stop), a handler, the account and the clock, a tab.  For each, a frame   *)
(* lemma says what its steps change, and the invariant follows from the frame.  *)
EXTENDS Console, TLAPS

\* A request is as it was, or it was cut off.
ReqKept ==
  \A q \in Requests :
    \/ req'[q] = req[q]
    \/ /\ InProgress(q)
       /\ req'[q].step = "answered" /\ req'[q].answer = "lost"
       /\ req'[q].token = req[q].token /\ req'[q].kind = req[q].kind

LEMMA AnswerFacts ==
  ASSUME NEW q \in Requests, req[q] \in RequestRecords, NEW a \in Answers
  PROVE  /\ Answer(q, a) \in RequestRecords
         /\ Answer(q, a).step = "answered" /\ Answer(q, a).answer = a
         /\ Answer(q, a).token = req[q].token /\ Answer(q, a).kind = req[q].kind
BY DEF Answer, RequestRecords, Steps

LEMMA CutFacts ==
  ASSUME TypeOK, NEW r \in Replicas, Cut(r)
  PROVE  /\ req' \in [Requests -> RequestRecords]
         /\ ReqKept
         /\ \A q \in Requests : InProgress(q)' => req[q].at # r /\ req'[q].at = req[q].at
<1>1. ASSUME NEW q \in Requests
      PROVE  /\ req'[q] \in RequestRecords
             /\ \/ req'[q] = req[q]
                \/ /\ InProgress(q)
                   /\ req'[q].step = "answered" /\ req'[q].answer = "lost"
                   /\ req'[q].token = req[q].token /\ req'[q].kind = req[q].kind
             /\ InProgress(q)' => req[q].at # r /\ req'[q].at = req[q].at
  <2>1. req[q] \in RequestRecords /\ "lost" \in Answers
    BY DEF TypeOK, Answers
  <2>2. req'[q] = IF InProgress(q) /\ req[q].at = r THEN Answer(q, "lost") ELSE req[q]
    BY DEF Cut
  <2>3. CASE InProgress(q) /\ req[q].at = r
    BY <2>1, <2>2, <2>3, AnswerFacts DEF InProgress
  <2>4. CASE ~ (InProgress(q) /\ req[q].at = r)
    BY <2>1, <2>2, <2>4 DEF InProgress
  <2> QED
    BY <2>3, <2>4
<1>2. req' = [q \in Requests |-> req'[q]]
  BY DEF Cut
<1> QED
  BY <1>1, <1>2 DEF ReqKept

----------------------------------------------------------------------------------
(* The processes                                                                *)

\* What a replica's start or stop does to itself, the user row and requests.
ProcessFrame(r) ==
  /\ UNCHANGED <<now, disabledAt, audited>>
  /\ password' \in Passwords \cup {Unset} /\ (password # Unset => password' = password)
  /\ phase' \in [Replicas -> Phases] /\ config' \in [Replicas -> Configurations]
  /\ excused' \in SUBSET Replicas /\ faults' \in Nat
  /\ \A x \in Replicas \ {r} :
       phase'[x] = phase[x] /\ config'[x] = config[x] /\ (x \in excused' <=> x \in excused)
  /\ req' \in [Requests -> RequestRecords] /\ ReqKept
  /\ phase'[r] = "failed" => r \in excused' \/ ~Complete(config'[r])
  /\ phase'[r] = "rereading" => password' # Unset \/ r \in excused'
  /\ \A q \in Requests :
       InProgress(q)' => /\ req'[q].at = req[q].at
                         /\ req[q].at = r => phase'[r] \in {"serving", "draining"}

LEMMA BootstrappedFacts ==
  ASSUME TypeOK, NEW r \in Replicas, Bootstrapped(r)
  PROVE  /\ phase' \in [Replicas -> Phases] /\ config' \in [Replicas -> Configurations]
         /\ excused' \in SUBSET Replicas /\ faults' \in Nat
         /\ \A x \in Replicas \ {r} :
              phase'[x] = phase[x] /\ config'[x] = config[x] /\ (x \in excused' <=> x \in excused)
         /\ phase'[r] \in {"serving", "failed"}
         /\ phase'[r] = "failed" => ~Complete(config'[r])
<1>1. Blank \in Configurations
  BY DEF Blank, Configurations
<1> QED
  BY <1>1 DEF TypeOK, Bootstrapped, NoFault, Enter, Phases, Complete

LEMMA FailsFacts ==
  ASSUME TypeOK, NEW r \in Replicas, Fails(r)
  PROVE  /\ phase' \in [Replicas -> Phases] /\ config' \in [Replicas -> Configurations]
         /\ excused' \in SUBSET Replicas /\ faults' \in Nat
         /\ \A x \in Replicas \ {r} :
              phase'[x] = phase[x] /\ config'[x] = config[x] /\ (x \in excused' <=> x \in excused)
         /\ phase'[r] = "failed" /\ r \in excused'
BY DEF TypeOK, Fails, Fault, Enter, Phases

LEMMA EnterFacts ==
  ASSUME TypeOK, NEW r \in Replicas, NEW p \in Phases, Enter(r, p), UNCHANGED <<config, excused>>
  PROVE  /\ phase' \in [Replicas -> Phases] /\ config' \in [Replicas -> Configurations]
         /\ excused' \in SUBSET Replicas
         /\ \A x \in Replicas \ {r} :
              phase'[x] = phase[x] /\ config'[x] = config[x] /\ (x \in excused' <=> x \in excused)
         /\ phase'[r] = p
BY DEF TypeOK, Enter

\* Before it serves, a replica has no request.
LEMMA NoneBefore ==
  ASSUME IInv, NEW r \in Replicas, phase[r] \notin {"serving", "draining"}, UNCHANGED req
  PROVE  /\ req' \in [Requests -> RequestRecords] /\ ReqKept
         /\ \A q \in Requests : InProgress(q)' => req'[q].at = req[q].at /\ req[q].at # r
BY DEF IInv, TypeOK, NoneCutShort, InProgress, ReqKept

LEMMA StartSteps ==
  ASSUME IInv, NEW r \in Replicas,
         Start(r) \/ SkipBootstrap(r) \/ FindUser(r) \/ CreateUser(r) \/ RereadUser(r)
  PROVE  ProcessFrame(r)
<1>0. /\ phase[r] \notin {"serving", "draining"} /\ UNCHANGED <<now, disabledAt, audited, req>>
      /\ TypeOK
  BY DEF Start, SkipBootstrap, FindUser, CreateUser, RereadUser, user, IInv
<1>a. /\ req' \in [Requests -> RequestRecords] /\ ReqKept
      /\ \A q \in Requests : InProgress(q)' => req'[q].at = req[q].at /\ req[q].at # r
  BY <1>0, NoneBefore
<1>b. "failed" \in Phases /\ "creating" \in Phases /\ "rereading" \in Phases /\ "finding" \in Phases
  BY DEF Phases
<1>1. CASE Start(r)
  <2>1. \E c \in Configurations : config' = [config EXCEPT ![r] = c]
    BY <1>1, ConfigsAssumption DEF Start
  <2> QED
    BY <1>0, <1>a, <1>b, <1>1, <2>1 DEF Start, Enter, user, TypeOK, ProcessFrame
<1>2. ASSUME Bootstrapped(r),
             password' \in Passwords \cup {Unset}, password # Unset => password' = password
      PROVE  ProcessFrame(r)
  BY <1>0, <1>a, <1>2, BootstrappedFacts DEF ProcessFrame
<1>c. password \in Passwords \cup {Unset} /\ config[r].password \in Passwords \cup {Unset}
  BY <1>0 DEF TypeOK, Configurations
<1>3. CASE Fails(r) /\ password' = password
  BY <1>0, <1>a, <1>3, FailsFacts DEF ProcessFrame, TypeOK
<1>4. CASE SkipBootstrap(r) /\ Partial(config[r]) /\ Enter(r, "failed") /\ Stays
  BY <1>0, <1>a, <1>b, <1>4, EnterFacts DEF ProcessFrame, SkipBootstrap, user, Stays, NoFault,
     Complete, TypeOK
<1>5. CASE FindUser(r) /\ Enter(r, "creating") /\ Stays
  BY <1>0, <1>a, <1>b, <1>5, EnterFacts DEF ProcessFrame, FindUser, user, Stays, NoFault, TypeOK
<1>6. CASE CreateUser(r) /\ password # Unset /\ Enter(r, "rereading") /\ password' = password /\ Stays
  BY <1>0, <1>a, <1>b, <1>6, EnterFacts DEF ProcessFrame, Stays, NoFault, TypeOK
<1>7. CASE /\ CreateUser(r)
           /\ Enter(r, "rereading") /\ Fault
           /\ excused' = excused \cup {r} /\ UNCHANGED config
           /\ password' \in {password, IF password = Unset THEN config[r].password ELSE password}
  <2>1. password' \in Passwords \cup {Unset} /\ (password # Unset => password' = password)
    BY <1>0, <1>7 DEF TypeOK, Configurations
  <2> QED
    BY <1>0, <1>a, <1>b, <1>7, <2>1 DEF ProcessFrame, Fault, Enter, TypeOK
<1>8. CASE RereadUser(r) /\ password = Unset /\ Enter(r, "failed") /\ Stays
  <2>1. r \in excused
    BY <1>8 DEF IInv, LosersFindTheRow, RereadUser
  <2> QED
    BY <1>0, <1>a, <1>b, <1>8, <2>1, EnterFacts DEF ProcessFrame, RereadUser, user, Stays, NoFault,
       TypeOK
<1>9. CASE SkipBootstrap(r)
  <2>1. password' = password
    BY <1>9 DEF SkipBootstrap, user
  <2>2. CASE Bootstrapped(r)
    BY <1>2, <1>c, <2>1, <2>2
  <2>3. CASE Partial(config[r]) /\ Enter(r, "failed") /\ Stays
    BY <1>4, <1>9, <2>3
  <2> QED
    BY <1>9, <2>2, <2>3 DEF SkipBootstrap
<1>10. CASE FindUser(r)
  <2>1. password' = password
    BY <1>10 DEF FindUser, user
  <2>2. CASE Bootstrapped(r)
    BY <1>2, <1>c, <2>1, <2>2
  <2>3. CASE Fails(r)
    BY <1>3, <2>1, <2>3
  <2>4. CASE Enter(r, "creating") /\ Stays
    BY <1>5, <1>10, <2>4
  <2> QED
    BY <1>10, <2>2, <2>3, <2>4 DEF FindUser
<1>11. CASE CreateUser(r)
  BY <1>2, <1>6, <1>7, <1>11, <1>c DEF CreateUser
<1>12. CASE RereadUser(r)
  <2>1. password' = password
    BY <1>12 DEF RereadUser, user
  <2>2. CASE Bootstrapped(r)
    BY <1>2, <1>c, <2>1, <2>2
  <2>3. CASE Fails(r)
    BY <1>3, <2>1, <2>3
  <2>4. CASE password = Unset /\ Enter(r, "failed") /\ Stays
    BY <1>8, <1>12, <2>4
  <2> QED
    BY <1>12, <2>2, <2>3, <2>4 DEF RereadUser
<1> QED
  BY <1>1, <1>9, <1>10, <1>11, <1>12

LEMMA StopSteps ==
  ASSUME IInv, NEW r \in Replicas,
         Signal(r) \/ Shutdown(r) \/ Deadline(r) \/ Kill(r)
  PROVE  ProcessFrame(r)
<1>0. UNCHANGED <<now, password, disabledAt, audited>> /\ TypeOK
  BY DEF Signal, Shutdown, Deadline, Kill, user, IInv
<1>1. CASE Signal(r)
  BY <1>0, <1>1, EnterFacts DEF Signal, ProcessFrame, ReqKept, InProgress, TypeOK, Phases
<1>2. CASE Shutdown(r)
  BY <1>0, <1>2, EnterFacts DEF Shutdown, ProcessFrame, ReqKept, InProgress, TypeOK, Phases
<1>3. CASE Deadline(r)
  <2>1. /\ req' \in [Requests -> RequestRecords] /\ ReqKept
        /\ \A q \in Requests : InProgress(q)' => req[q].at # r /\ req'[q].at = req[q].at
    BY <1>0, <1>3, CutFacts DEF Deadline
  <2> QED
    BY <1>0, <1>3, <2>1 DEF Deadline, Enter, ProcessFrame, TypeOK, Phases
<1>4. CASE Kill(r)
  <2>1. /\ req' \in [Requests -> RequestRecords] /\ ReqKept
        /\ \A q \in Requests : InProgress(q)' => req[q].at # r /\ req'[q].at = req[q].at
    BY <1>0, <1>4, CutFacts DEF Kill
  <2> QED
    BY <1>0, <1>4, <2>1, FailsFacts DEF Kill, ProcessFrame, TypeOK
<1> QED
  BY <1>1, <1>2, <1>3, <1>4

LEMMA ProcessStep ==
  ASSUME IInv, NEW r \in Replicas, Process(r), UNCHANGED tabs
  PROVE  IInv' /\ ProcessFrame(r)
<1>0. ProcessFrame(r)
  BY StartSteps, StopSteps DEF Process
<1>1. TypeOK'
  BY <1>0 DEF IInv, TypeOK, ProcessFrame, tabs
<1>2. TokensStemFromLogins'
  <2>1. UNCHANGED <<now, disabledAt, stored>>
    BY <1>0 DEF ProcessFrame, tabs
  <2>2. \A q \in Requests : req'[q].token = req[q].token
    BY <1>0 DEF ProcessFrame, ReqKept
  <2>3. \A q \in Requests : req'[q].step = "found" => req'[q] = req[q]
    BY <1>0 DEF ProcessFrame, ReqKept
  <2> QED
    BY <2>1, <2>2, <2>3 DEF IInv, TokensStemFromLogins, Holds, FoundActive
<1>3. LosersFindTheRow'
  BY <1>0 DEF IInv, LosersFindTheRow, ProcessFrame
<1>4. RaceIsNoError'
  BY <1>0 DEF IInv, RaceIsNoError, ProcessFrame, Complete, Partial
<1>5. IssuedIsAudited'
  BY <1>0 DEF IInv, IssuedIsAudited, ProcessFrame, ReqKept
<1>6. ProgressIsSomewhere' /\ NoneCutShort'
  <2> SUFFICES ASSUME NEW q \in Requests, InProgress(q)'
               PROVE  req'[q].at \in Replicas /\ phase'[req'[q].at] \in {"serving", "draining"}
    BY DEF ProgressIsSomewhere, NoneCutShort
  <2>1. req'[q] = req[q] /\ InProgress(q)
    BY <1>0 DEF ProcessFrame, ReqKept, InProgress
  <2>2. req[q].at \in Replicas /\ phase[req[q].at] \in {"serving", "draining"}
    BY <2>1 DEF IInv, ProgressIsSomewhere, NoneCutShort
  <2> QED
    BY <1>0, <2>1, <2>2 DEF ProcessFrame
<1>7. FreeIsForgotten' /\ LoadingIsWaiting'
  BY <1>0 DEF IInv, FreeIsForgotten, LoadingIsWaiting, ProcessFrame, ReqKept, tabs
<1> QED
  BY <1>0, <1>1, <1>2, <1>3, <1>4, <1>5, <1>6, <1>7 DEF IInv

----------------------------------------------------------------------------------
(* The handlers                                                                 *)

\* What a handler does, to the request it serves and to the audit log.
ServeFrame(q) ==
  /\ UNCHANGED <<now, user, processes>> /\ faults' \in Nat
  /\ audited' \in SUBSET Requests /\ audited \subseteq audited'
  /\ req' \in [Requests -> RequestRecords]
  /\ \A p \in Requests \ {q} : req'[p] = req[p]
  /\ Holds(req'[q].token)
  /\ req'[q].step = "found" => FoundActive(req'[q].found)
  /\ req'[q].step # "free" /\ req[q].step # "free"
  /\ req'[q].kind = "login" /\ req'[q].step = "answered" /\ req'[q].answer = "ok" => q \in audited'
  /\ InProgress(q)' => /\ req'[q].at \in Replicas
                       /\ phase[req'[q].at] \in {"serving", "draining"}

\* A request that gets an answer other than a login's success keeps its token.
LEMMA AnsweredFacts ==
  ASSUME IInv, NEW q \in Requests, NEW a \in Answers, req[q].step # "free",
         Becomes(q, Answer(q, a)), UNCHANGED <<now, user, audited, processes>>, faults' \in Nat,
         a = "ok" => req[q].kind # "login"
  PROVE  ServeFrame(q)
<1>1. /\ TypeOK /\ req[q] \in RequestRecords /\ Holds(req[q].token)
      /\ req \in [Requests -> RequestRecords] /\ audited \in SUBSET Requests
  BY DEF IInv, TypeOK, TokensStemFromLogins
<1>2. /\ req' \in [Requests -> RequestRecords] /\ req'[q] = Answer(q, a)
      /\ \A p \in Requests \ {q} : req'[p] = req[p]
  BY <1>1, AnswerFacts DEF Becomes
<1>3. /\ req'[q].step = "answered" /\ req'[q].answer = a
      /\ req'[q].token = req[q].token /\ req'[q].kind = req[q].kind
  BY <1>1, <1>2, AnswerFacts
<1> QED
  BY <1>1, <1>2, <1>3 DEF ServeFrame, InProgress

LEMMA FaultFacts ==
  ASSUME TypeOK, NoFault \/ Fault
  PROVE  faults' \in Nat
BY DEF TypeOK, NoFault, Fault

LEMMA AcceptStep ==
  ASSUME IInv, NEW q \in Requests, NEW r \in Replicas, Accept(q, r)
  PROVE  ServeFrame(q)
<1>1. /\ TypeOK /\ req[q] \in RequestRecords /\ Holds(req[q].token)
      /\ req \in [Requests -> RequestRecords] /\ "unauthorized" \in Answers
  BY DEF IInv, TypeOK, TokensStemFromLogins, Answers
<1>2. CASE Becomes(q, Answer(q, "unauthorized"))
  BY <1>1, <1>2, AnsweredFacts DEF Accept, TypeOK
<1>3. CASE Becomes(q, [req[q] EXCEPT !.step = "accepted", !.at = r])
  <2> DEFINE R == [req[q] EXCEPT !.step = "accepted", !.at = r]
  <2>1. R \in RequestRecords /\ R.step = "accepted" /\ R.at = r /\ R.token = req[q].token
    BY <1>1 DEF RequestRecords, Steps
  <2>2. req'[q] = R /\ \A p \in Requests \ {q} : req'[p] = req[p]
    BY <1>1, <1>3 DEF Becomes
  <2>3. req' \in [Requests -> RequestRecords]
    BY <1>1, <1>3, <2>1 DEF Becomes
  <2> HIDE DEF R
  <2> QED
    BY <1>1, <2>1, <2>2, <2>3 DEF Accept, ServeFrame, TypeOK, user, processes
<1> QED
  BY <1>2, <1>3 DEF Accept

LEMMA ServeSteps ==
  ASSUME IInv, NEW q \in Requests, Serve(q)
  PROVE  ServeFrame(q)
<1>1. /\ TypeOK /\ req[q] \in RequestRecords /\ Holds(req[q].token) /\ now \in Nat
      /\ req \in [Requests -> RequestRecords] /\ audited \in SUBSET Requests
      /\ InProgress(q) => req[q].at \in Replicas /\ phase[req[q].at] \in {"serving", "draining"}
  BY DEF IInv, TypeOK, TokensStemFromLogins, ProgressIsSomewhere, NoneCutShort
<1>2. Answers = {"none", "ok", "unauthorized", "forbidden", "error", "lost"}
  BY DEF Answers
<1>3. CASE Me(q)
  BY <1>1, <1>2, <1>3, AnsweredFacts, FaultFacts DEF Me
<1>4. CASE Handle(q)
  BY <1>1, <1>2, <1>4, AnsweredFacts, FaultFacts DEF Handle
<1>5. ASSUME NEW p \in Passwords, Find(q, p)
      PROVE  ServeFrame(q)
  <2>1. CASE \E a \in {"forbidden", "unauthorized"} : Becomes(q, Answer(q, a))
    BY <1>1, <1>2, <1>5, <2>1, AnsweredFacts, FaultFacts DEF Find
  <2>2. CASE disabledAt = Never /\ Becomes(q, [req[q] EXCEPT !.step = "found", !.found = now])
    <3> DEFINE R == [req[q] EXCEPT !.step = "found", !.found = now]
    <3>1. /\ R \in RequestRecords /\ R.step = "found" /\ R.found = now
          /\ R.token = req[q].token /\ R.at = req[q].at
      BY <1>1 DEF RequestRecords, Steps
    <3>2. req'[q] = R /\ \A x \in Requests \ {q} : req'[x] = req[x]
      BY <1>1, <2>2 DEF Becomes
    <3>3. req' \in [Requests -> RequestRecords]
      BY <1>1, <2>2, <3>1 DEF Becomes
    <3>4. FoundActive(now)
      BY <1>1, <2>2 DEF FoundActive
    <3>5. faults' \in Nat /\ UNCHANGED <<now, user, audited, processes>>
      BY <1>1, <1>5, FaultFacts DEF Find
    <3>6. InProgress(q) /\ req[q].step # "free"
      BY <1>5 DEF Find, InProgress
    <3> HIDE DEF R
    <3> QED
      BY <1>1, <3>1, <3>2, <3>3, <3>4, <3>5, <3>6 DEF ServeFrame
  <2> QED
    BY <1>5, <2>1, <2>2 DEF Find
<1>6. CASE Generate(q)
  <2> DEFINE K == [by |-> req[q].at, at |-> now, found |-> req[q].found]
             R == [req[q] EXCEPT !.step = "signed", !.token = K]
  <2>1. K \in Tokens /\ K.found = req[q].found
    BY <1>1, <1>6 DEF Tokens, RequestRecords, Generate, InProgress
  <2>2. FoundActive(req[q].found)
    BY <1>6 DEF IInv, TokensStemFromLogins, Generate
  <2> HIDE DEF K
  <2>3. R \in RequestRecords /\ R.step = "signed" /\ R.token = K /\ R.at = req[q].at
    BY <1>1, <2>1 DEF RequestRecords, Steps
  <2>4. req'[q] = R /\ \A x \in Requests \ {q} : req'[x] = req[x]
    BY <1>1, <1>6 DEF Becomes, Generate, K
  <2>5. req' \in [Requests -> RequestRecords]
    BY <1>1, <1>6, <2>3 DEF Becomes, Generate, K
  <2> HIDE DEF R
  <2> QED
    BY <1>1, <1>6, <2>1, <2>2, <2>3, <2>4, <2>5 DEF ServeFrame, Generate, Holds, InProgress, TypeOK
<1>7. CASE RecordSuccess(q)
  <2>1. /\ faults' \in Nat /\ UNCHANGED <<now, user, processes>>
        /\ audited' \in SUBSET Requests /\ audited \subseteq audited'
        /\ req[q].step # "free"
    BY <1>1, <1>7, FaultFacts DEF RecordSuccess
  <2>2. CASE audited' = audited \cup {q} /\ Becomes(q, Answer(q, "ok"))
    <3>1. /\ Answer(q, "ok") \in RequestRecords /\ Answer(q, "ok").step = "answered"
          /\ Answer(q, "ok").token = req[q].token
      BY <1>1, <1>2, AnswerFacts
    <3>2. /\ req'[q] = Answer(q, "ok") /\ req' \in [Requests -> RequestRecords]
          /\ \A x \in Requests \ {q} : req'[x] = req[x]
      BY <1>1, <2>2, <3>1 DEF Becomes
    <3> QED
      BY <1>1, <2>1, <2>2, <3>1, <3>2 DEF ServeFrame, InProgress
  <2>3. CASE Becomes(q, Refuse(q))
    <3>0. Answer(q, "error") \in RequestRecords /\ Answer(q, "error").step = "answered"
          /\ Answer(q, "error").answer = "error"
      BY <1>1, <1>2, AnswerFacts
    <3>1. /\ Refuse(q) \in RequestRecords /\ Refuse(q).step = "answered"
          /\ Refuse(q).answer = "error" /\ Refuse(q).token = NoToken
      BY <3>0 DEF Refuse, RequestRecords
    <3>2. /\ req'[q] = Refuse(q) /\ req' \in [Requests -> RequestRecords]
          /\ \A x \in Requests \ {q} : req'[x] = req[x]
      BY <1>1, <2>3, <3>1 DEF Becomes
    <3> QED
      BY <2>1, <3>1, <3>2 DEF ServeFrame, InProgress, Holds
  <2> QED
    BY <1>7, <2>2, <2>3 DEF RecordSuccess
<1> QED
  BY <1>3, <1>4, <1>5, <1>6, <1>7, AcceptStep DEF Serve

LEMMA ServeStep ==
  ASSUME IInv, NEW q \in Requests, Serve(q), UNCHANGED tabs
  PROVE  IInv' /\ ServeFrame(q)
<1>0. ServeFrame(q)
  BY ServeSteps
<1>1. TypeOK'
  BY <1>0 DEF IInv, TypeOK, ServeFrame, tabs, user, processes
<1>2. TokensStemFromLogins'
  <2>1. UNCHANGED <<now, disabledAt, stored>>
    BY <1>0 DEF ServeFrame, tabs, user
  <2> QED
    BY <1>0, <2>1 DEF IInv, TokensStemFromLogins, Holds, FoundActive, ServeFrame
<1>3. LosersFindTheRow' /\ RaceIsNoError'
  BY <1>0 DEF IInv, LosersFindTheRow, RaceIsNoError, ServeFrame, user, processes, Complete, Partial
<1>4. IssuedIsAudited'
  BY <1>0 DEF IInv, IssuedIsAudited, ServeFrame
<1>5. ProgressIsSomewhere' /\ NoneCutShort'
  <2>1. phase' = phase
    BY <1>0 DEF ServeFrame, processes
  <2>2. \A p \in Requests \ {q} : InProgress(p)' <=> InProgress(p)
    BY <1>0 DEF ServeFrame, InProgress
  <2> QED
    BY <1>0, <2>1, <2>2 DEF IInv, ProgressIsSomewhere, NoneCutShort, ServeFrame
<1>6. FreeIsForgotten' /\ LoadingIsWaiting'
  BY <1>0 DEF IInv, FreeIsForgotten, LoadingIsWaiting, ServeFrame, tabs
<1> QED
  BY <1>0, <1>1, <1>2, <1>3, <1>4, <1>5, <1>6 DEF IInv

----------------------------------------------------------------------------------
(* The account and the clock                                                    *)

LEMMA WorldStep ==
  ASSUME IInv, Disable \/ Tick, UNCHANGED tabs
  PROVE  IInv'
<1>1. /\ UNCHANGED <<password, audited, phase, config, excused, req, faults>>
      /\ UNCHANGED <<stored, shown, loading, path, waiting>>
  BY DEF Disable, Tick, user, processes, tabs
<1>2. now' \in Nat /\ now' >= now /\ disabledAt' \in Nat \cup {Never} /\ now \in Nat
  BY DEF IInv, TypeOK, Disable, Tick, user
<1>3. TypeOK'
  BY <1>1, <1>2 DEF IInv, TypeOK
<1>4. ASSUME NEW time \in Nat, FoundActive(time) PROVE FoundActive(time)'
  BY <1>2, <1>4 DEF FoundActive, Disable, Tick, user
<1>5. TokensStemFromLogins'
  <2>1. disabledAt' # Never => disabledAt' <= now'
    BY <1>2 DEF IInv, TypeOK, TokensStemFromLogins, Disable, Tick, user
  <2>2. \A t \in Tabs : Holds(stored[t])'
    BY <1>1, <1>4 DEF IInv, TypeOK, TokensStemFromLogins, Holds, Tokens
  <2>3. \A q \in Requests : Holds(req[q].token)'
    BY <1>1, <1>4 DEF IInv, TypeOK, TokensStemFromLogins, Holds, Tokens, RequestRecords
  <2>4. \A q \in Requests : (req[q].step = "found" => FoundActive(req[q].found))'
    BY <1>1, <1>4 DEF IInv, TypeOK, TokensStemFromLogins, RequestRecords
  <2> QED
    BY <2>1, <2>2, <2>3, <2>4 DEF TokensStemFromLogins
<1>6. /\ LosersFindTheRow' /\ RaceIsNoError' /\ IssuedIsAudited' /\ ProgressIsSomewhere'
      /\ NoneCutShort' /\ FreeIsForgotten' /\ LoadingIsWaiting'
  BY <1>1 DEF IInv, LosersFindTheRow, RaceIsNoError, IssuedIsAudited, ProgressIsSomewhere,
     NoneCutShort, FreeIsForgotten, LoadingIsWaiting, InProgress, Complete, Partial
<1> QED
  BY <1>3, <1>5, <1>6 DEF IInv

----------------------------------------------------------------------------------
(* The tabs                                                                     *)

\* A request that is new: it carries no token or the one its tab has stored.
IsSent(q, record) ==
  /\ record \in RequestRecords
  /\ record.step = "sent" /\ record.token = stored[Of[q]]

\* What a tab's step does to the requests and the sessions.
TabFrame ==
  /\ UNCHANGED <<now, user, processes, faults>>
  /\ req' \in [Requests -> RequestRecords] /\ audited' \in SUBSET Requests
  /\ \A q \in Requests :
       \/ req'[q] = req[q] /\ (q \in audited' <=> q \in audited)
       \/ req'[q] = Free
       \/ IsSent(q, req'[q]) /\ req'[q].answer = "none"
  /\ stored' \in [Tabs -> Tokens \cup {NoToken}]
  /\ shown' \in [Tabs -> BOOLEAN] /\ loading' \in [Tabs -> BOOLEAN]
  /\ path' \in [Tabs -> {"login", "app"}]
  /\ waiting' \in [Requests -> {"nobody", "login", "mount", "page"}]
  /\ \A t \in Tabs : Holds(stored'[t])
  /\ FreeIsForgotten' /\ LoadingIsWaiting'

LEMMA FreeFacts ==
  /\ Free \in RequestRecords
  /\ Free.step = "free" /\ Free.token = NoToken /\ Free.answer = "none"
BY DEF Free, RequestRecords, Steps, Kinds, Answers

LEMMA SentFacts ==
  ASSUME NEW kind \in Kinds, NEW token \in Tokens \cup {NoToken}
  PROVE  LET record == [Free EXCEPT !.step = "sent", !.kind = kind, !.token = token]
         IN record \in RequestRecords /\ record.step = "sent" /\ record.token = token
            /\ record.answer = "none"
BY DEF Free, RequestRecords, Steps, Answers

LEMMA ShowFacts ==
  ASSUME TypeOK, NEW t \in Tabs, NEW token \in Tokens \cup {NoToken}, NEW user_ \in BOOLEAN,
         NEW busy \in BOOLEAN, NEW at \in {"login", "app"}, Show(t, token, user_, busy, at)
  PROVE  /\ stored' \in [Tabs -> Tokens \cup {NoToken}]
         /\ shown' \in [Tabs -> BOOLEAN] /\ loading' \in [Tabs -> BOOLEAN]
         /\ path' \in [Tabs -> {"login", "app"}]
         /\ stored'[t] = token /\ loading'[t] = busy
         /\ \A x \in Tabs \ {t} : stored'[x] = stored[x] /\ loading'[x] = loading[x]
BY DEF TypeOK, Show

\* A request goes out; nobody waited for the one that was there before.
LEMMA SendFacts ==
  ASSUME IInv, NEW q \in Requests, NEW kind \in Kinds, NEW use \in {"login", "page"},
         Send(q, kind, use), UNCHANGED <<stored, shown, loading, path>>
  PROVE  TabFrame
<1>1. Of[q] \in Tabs /\ stored[Of[q]] \in Tokens \cup {NoToken} /\ TypeOK
  BY TabsAssumption DEF IInv, TypeOK
<1> DEFINE R == [Free EXCEPT !.step = "sent", !.kind = kind, !.token = stored[Of[q]]]
<1>2. R \in RequestRecords /\ R.step = "sent" /\ R.token = stored[Of[q]] /\ R.answer = "none"
  BY <1>1, SentFacts
<1>3. /\ req' = [req EXCEPT ![q] = R] /\ waiting' = [waiting EXCEPT ![q] = use]
      /\ audited' = audited \ {q} /\ req[q].step = "free"
      /\ UNCHANGED <<now, user, processes, faults>>
  BY DEF Send
<1> HIDE DEF R
<1>4. waiting[q] = "nobody"
  BY <1>3 DEF IInv, FreeIsForgotten
<1>5. /\ req' \in [Requests -> RequestRecords] /\ req'[q] = R
      /\ \A x \in Requests \ {q} : req'[x] = req[x]
      /\ waiting' \in [Requests -> {"nobody", "login", "mount", "page"}] /\ waiting'[q] = use
      /\ \A x \in Requests \ {q} : waiting'[x] = waiting[x]
  BY <1>1, <1>2, <1>3 DEF TypeOK
<1>6. FreeIsForgotten'
  BY <1>2, <1>5 DEF IInv, FreeIsForgotten
<1>7. LoadingIsWaiting'
  BY <1>4, <1>5 DEF IInv, LoadingIsWaiting
<1> QED
  BY <1>1, <1>2, <1>3, <1>5, <1>6, <1>7 DEF TabFrame, IsSent, IInv, TypeOK, TokensStemFromLogins

\* A request is let go.
LEMMA FreedFacts ==
  ASSUME TypeOK, NEW q \in Requests, req' = req \/ req' = [req EXCEPT ![q] = Free]
  PROVE  /\ req' \in [Requests -> RequestRecords]
         /\ \A x \in Requests : req'[x] = req[x] \/ (x = q /\ req'[x] = Free)
<1>1. req \in [Requests -> RequestRecords] /\ Free \in RequestRecords
  BY FreeFacts DEF TypeOK
<1>2. CASE req' = req
  <2>1. req' \in [Requests -> RequestRecords]
    BY <1>1, <1>2
  <2>2. \A x \in Requests : req'[x] = req[x]
    BY <1>2
  <2> QED
    BY <2>1, <2>2
<1>3. CASE req' = [req EXCEPT ![q] = Free]
  <2>1. req' \in [Requests -> RequestRecords]
    BY <1>1, <1>3
  <2>2. \A x \in Requests : req'[x] = IF x = q THEN Free ELSE req[x]
    BY <1>1, <1>3
  <2> QED
    BY <2>1, <2>2
<1> QED
  BY <1>2, <1>3

LEMMA DroppedFacts ==
  ASSUME TypeOK, NEW q \in Requests, Dropped(q)
  PROVE  /\ waiting' \in [Requests -> {"nobody", "login", "mount", "page"}]
         /\ waiting'[q] = "nobody"
         /\ \A x \in Requests \ {q} : waiting'[x] = waiting[x]
BY DEF TypeOK, Dropped

\* A request ends in its tab.
LEMMA EndFacts ==
  ASSUME IInv, NEW q \in Requests, NEW token \in Tokens \cup {NoToken}, Holds(token),
         NEW user_ \in BOOLEAN, NEW busy \in BOOLEAN, NEW at \in {"login", "app"},
         Show(Of[q], token, user_, busy, at),
         busy => loading[Of[q]] /\ waiting[q] # "mount",
         Dropped(q), req' = req \/ req' = [req EXCEPT ![q] = Free],
         UNCHANGED <<now, user, audited, processes, faults>>
  PROVE  TabFrame
<1>1. Of[q] \in Tabs /\ TypeOK
  BY TabsAssumption DEF IInv
<1>2. /\ stored' \in [Tabs -> Tokens \cup {NoToken}]
      /\ shown' \in [Tabs -> BOOLEAN] /\ loading' \in [Tabs -> BOOLEAN]
      /\ path' \in [Tabs -> {"login", "app"}]
      /\ stored'[Of[q]] = token /\ loading'[Of[q]] = busy
      /\ \A x \in Tabs \ {Of[q]} : stored'[x] = stored[x] /\ loading'[x] = loading[x]
  BY <1>1, ShowFacts
<1>3. /\ req' \in [Requests -> RequestRecords]
      /\ \A x \in Requests : req'[x] = req[x] \/ (x = q /\ req'[x] = Free)
      /\ waiting' \in [Requests -> {"nobody", "login", "mount", "page"}] /\ waiting'[q] = "nobody"
      /\ \A x \in Requests \ {q} : waiting'[x] = waiting[x]
  BY <1>1, FreedFacts, DroppedFacts
<1>4. \A t \in Tabs : Holds(stored'[t])
  BY <1>2 DEF IInv, TokensStemFromLogins
<1>5. FreeIsForgotten'
  BY <1>3 DEF IInv, FreeIsForgotten
<1>6. LoadingIsWaiting'
  <2> SUFFICES ASSUME NEW t \in Tabs, loading'[t]
               PROVE  \E p \in Requests : Of[p] = t /\ waiting'[p] = "mount"
    BY DEF LoadingIsWaiting
  <2>1. loading[t] /\ (t = Of[q] => waiting[q] # "mount")
    BY <1>2
  <2>2. PICK p \in Requests : Of[p] = t /\ waiting[p] = "mount"
    BY <2>1 DEF IInv, LoadingIsWaiting
  <2> QED
    BY <1>3, <2>1, <2>2
<1> QED
  BY <1>1, <1>2, <1>3, <1>4, <1>5, <1>6 DEF TabFrame, TypeOK

LEMMA BrowserSteps ==
  ASSUME IInv, NEW q \in Requests, Browser(q)
  PROVE  TabFrame
<1>0. /\ TypeOK /\ Of[q] \in Tabs /\ req[q] \in RequestRecords
      /\ stored[Of[q]] \in Tokens \cup {NoToken} /\ Holds(stored[Of[q]])
      /\ req[q].token \in Tokens \cup {NoToken} /\ Holds(req[q].token) /\ Holds(NoToken)
      /\ shown[Of[q]] \in BOOLEAN /\ loading[Of[q]] \in BOOLEAN
      /\ path[Of[q]] \in {"login", "app"}
  BY TabsAssumption DEF IInv, TypeOK, TokensStemFromLogins, RequestRecords, Holds
<1>1. CASE SubmitLogin(q) \/ Load(q)
  BY <1>1, SendFacts DEF SubmitLogin, Load, Kinds
<1>2. CASE Succeeds(q)
  <2>1. CASE waiting[q] = "login" /\ Show(Of[q], req[q].token, TRUE, loading[Of[q]], "app")
    BY <1>0, <1>2, <2>1, EndFacts DEF Succeeds
  <2>2. CASE waiting[q] = "mount" /\ Show(Of[q], stored[Of[q]], TRUE, FALSE, "app")
    BY <1>0, <1>2, <2>2, EndFacts DEF Succeeds
  <2>3. CASE waiting[q] = "page" /\ UNCHANGED <<stored, shown, loading, path>>
    <3>1. /\ req' \in [Requests -> RequestRecords]
          /\ \A x \in Requests : req'[x] = req[x] \/ (x = q /\ req'[x] = Free)
          /\ waiting' \in [Requests -> {"nobody", "login", "mount", "page"}]
          /\ waiting'[q] = "nobody"
          /\ \A x \in Requests \ {q} : waiting'[x] = waiting[x]
      BY <1>0, <1>2, FreedFacts, DroppedFacts DEF Succeeds
    <3>2. FreeIsForgotten' /\ LoadingIsWaiting'
      BY <2>3, <3>1 DEF IInv, FreeIsForgotten, LoadingIsWaiting
    <3> QED
      BY <1>0, <1>2, <2>3, <3>1, <3>2 DEF Succeeds, TabFrame, TypeOK, IInv, TokensStemFromLogins
  <2> QED
    BY <1>2, <2>1, <2>2, <2>3 DEF Succeeds
<1>3. CASE IsRejected(q) \/ Timeout(q)
  <2> DEFINE busy == loading[Of[q]] /\ waiting[q] # "mount"
  <2>1. \E token \in {NoToken, stored[Of[q]]} :
          Show(Of[q], token, shown[Of[q]], busy, path[Of[q]])
    BY <1>3 DEF IsRejected, Timeout, Reject
  <2>2. /\ Dropped(q) /\ (req' = req \/ req' = [req EXCEPT ![q] = Free])
        /\ UNCHANGED <<now, user, audited, processes, faults>>
    BY <1>3 DEF IsRejected, Timeout, apiVars
  <2>3. busy \in BOOLEAN /\ (busy => loading[Of[q]] /\ waiting[q] # "mount")
    OBVIOUS
  <2> HIDE DEF busy
  <2> QED
    BY <1>0, <2>1, <2>2, <2>3, EndFacts
<1>4. CASE Vanish(q)
  <2>1. /\ req' \in [Requests -> RequestRecords]
        /\ \A x \in Requests : req'[x] = req[x] \/ (x = q /\ req'[x] = Free)
    BY <1>0, <1>4, FreedFacts DEF Vanish
  <2>2. waiting[q] = "nobody" /\ UNCHANGED <<stored, shown, loading, path, waiting>>
    BY <1>4 DEF Vanish, tabs
  <2>3. FreeIsForgotten' /\ LoadingIsWaiting'
    BY <2>1, <2>2 DEF IInv, FreeIsForgotten, LoadingIsWaiting
  <2> QED
    BY <1>0, <1>4, <2>1, <2>2, <2>3 DEF Vanish, TabFrame, TypeOK, IInv, TokensStemFromLogins
<1> QED
  BY <1>1, <1>2, <1>3, <1>4 DEF Browser

LEMMA TabSteps ==
  ASSUME IInv, NEW t \in Tabs, Tab(t)
  PROVE  TabFrame
<1>0. /\ TypeOK /\ stored[t] \in Tokens \cup {NoToken} /\ Holds(stored[t]) /\ Holds(NoToken)
      /\ loading[t] \in BOOLEAN /\ path[t] \in {"login", "app"}
  BY DEF IInv, TypeOK, TokensStemFromLogins, Holds
<1>1. CASE Logout(t)
  <2>1. /\ stored' \in [Tabs -> Tokens \cup {NoToken}]
        /\ shown' \in [Tabs -> BOOLEAN] /\ loading' \in [Tabs -> BOOLEAN]
        /\ path' \in [Tabs -> {"login", "app"}]
        /\ stored'[t] = NoToken /\ loading'[t] = loading[t]
        /\ \A x \in Tabs \ {t} : stored'[x] = stored[x] /\ loading'[x] = loading[x]
    <3>1. Show(t, NoToken, FALSE, loading[t], path[t])
      BY <1>1 DEF Logout
    <3> QED
      BY ONLY <1>0, <3>1, t \in Tabs DEF TypeOK, Show
  <2>2. UNCHANGED <<now, user, audited, processes, req, faults, waiting>>
    BY <1>1 DEF Logout, apiVars
  <2>3. FreeIsForgotten' /\ LoadingIsWaiting'
    BY <2>1, <2>2 DEF IInv, FreeIsForgotten, LoadingIsWaiting
  <2>4. \A x \in Tabs : Holds(stored'[x])
    BY <1>0, <2>1 DEF IInv, TokensStemFromLogins
  <2> QED
    BY <1>0, <2>1, <2>2, <2>3, <2>4 DEF TabFrame, TypeOK
<1>2. CASE Reload(t)
  <2> DEFINE dropped == [q \in Requests |-> IF Of[q] = t THEN "nobody" ELSE waiting[q]]
             busy == stored[t] # NoToken
  <2>0. dropped \in [Requests -> {"nobody", "login", "mount", "page"}]
    BY <1>0 DEF TypeOK
  <2>1. PICK at \in {"login", "app"} : Show(t, stored[t], FALSE, busy, at)
    BY <1>2 DEF Reload
  <2>2. /\ stored' \in [Tabs -> Tokens \cup {NoToken}]
        /\ shown' \in [Tabs -> BOOLEAN] /\ loading' \in [Tabs -> BOOLEAN]
        /\ path' \in [Tabs -> {"login", "app"}]
        /\ stored'[t] = stored[t] /\ loading'[t] = busy
        /\ \A x \in Tabs \ {t} : stored'[x] = stored[x] /\ loading'[x] = loading[x]
    <3>1. busy \in BOOLEAN /\ FALSE \in BOOLEAN
      OBVIOUS
    <3> HIDE DEF busy
    <3> QED
      BY ONLY <1>0, <2>1, <3>1, t \in Tabs DEF TypeOK, Show
  <2>3. \A x \in Tabs : Holds(stored'[x])
    BY <1>0, <2>2 DEF IInv, TokensStemFromLogins
  <2>4. CASE stored[t] = NoToken
    <3>1. waiting' = dropped /\ UNCHANGED apiVars
      BY <1>2, <2>4 DEF Reload
    <3>2. UNCHANGED <<now, user, audited, processes, req, faults>>
      BY <3>1 DEF apiVars
    <3>3. FreeIsForgotten' /\ LoadingIsWaiting'
      <4>1. FreeIsForgotten'
        BY <3>1, <3>2 DEF IInv, FreeIsForgotten
      <4>2. ASSUME NEW x \in Tabs, loading'[x]
            PROVE  \E p \in Requests : Of[p] = x /\ waiting'[p] = "mount"
        <5>1. x # t /\ loading[x]
          BY <2>2, <2>4, <4>2
        <5>2. PICK p \in Requests : Of[p] = x /\ waiting[p] = "mount"
          BY <5>1 DEF IInv, LoadingIsWaiting
        <5> QED
          BY <3>1, <5>1, <5>2
      <4> QED
        BY <4>1, <4>2 DEF LoadingIsWaiting
    <3> QED
      BY <1>0, <2>0, <2>2, <2>3, <3>1, <3>2, <3>3 DEF TabFrame, TypeOK
  <2>5. CASE stored[t] # NoToken
    <3>1. PICK q \in Requests :
            /\ Of[q] = t /\ req[q].step = "free"
            /\ req' = [req EXCEPT ![q] = [Free EXCEPT !.step = "sent", !.kind = "me",
                                                      !.token = stored[t]]]
            /\ audited' = audited \ {q}
            /\ waiting' = [dropped EXCEPT ![q] = "mount"]
      BY <1>2, <2>5 DEF Reload
    <3> DEFINE R == [Free EXCEPT !.step = "sent", !.kind = "me", !.token = stored[t]]
    <3>2. R \in RequestRecords /\ R.step = "sent" /\ R.token = stored[t] /\ R.answer = "none"
      BY <1>0, SentFacts DEF Kinds
    <3>3. req' = [req EXCEPT ![q] = R]
      BY <3>1
    <3> HIDE DEF R
    <3>4. /\ req' \in [Requests -> RequestRecords] /\ req'[q] = R
          /\ \A x \in Requests \ {q} : req'[x] = req[x]
          /\ waiting' \in [Requests -> {"nobody", "login", "mount", "page"}]
          /\ waiting'[q] = "mount"
          /\ \A x \in Requests \ {q} :
               waiting'[x] = IF Of[x] = t THEN "nobody" ELSE waiting[x]
      BY <1>0, <2>0, <3>1, <3>2, <3>3 DEF TypeOK
    <3>5. FreeIsForgotten'
      BY <3>2, <3>4 DEF IInv, FreeIsForgotten
    <3>6. LoadingIsWaiting'
      <4> SUFFICES ASSUME NEW x \in Tabs, loading'[x]
                   PROVE  \E p \in Requests : Of[p] = x /\ waiting'[p] = "mount"
        BY DEF LoadingIsWaiting
      <4>1. CASE x = t
        BY <3>1, <3>4, <4>1
      <4>2. CASE x # t
        <5>1. PICK p \in Requests : Of[p] = x /\ waiting[p] = "mount"
          BY <2>2, <4>2 DEF IInv, LoadingIsWaiting
        <5> QED
          BY <3>1, <3>4, <4>2, <5>1
      <4> QED
        BY <4>1, <4>2
    <3>7. UNCHANGED <<now, user, processes, faults>>
      BY <1>2, <2>5 DEF Reload, apiVars
    <3> QED
      BY <1>0, <2>2, <2>3, <3>1, <3>2, <3>4, <3>5, <3>6, <3>7 DEF TabFrame, IsSent, TypeOK
  <2> QED
    BY <2>4, <2>5
<1> QED
  BY <1>1, <1>2 DEF Tab

LEMMA TabStep ==
  ASSUME IInv, TabFrame
  PROVE  IInv'
<1>1. TypeOK'
  BY DEF IInv, TypeOK, TabFrame, user, processes
<1>2. TokensStemFromLogins'
  <2>1. UNCHANGED <<now, disabledAt>>
    BY DEF TabFrame, user
  <2>2. ASSUME NEW q \in Requests
        PROVE  /\ Holds(req'[q].token)
               /\ req'[q].step = "found" => FoundActive(req'[q].found)
    <3>1. CASE req'[q] = req[q]
      BY <3>1 DEF IInv, TokensStemFromLogins
    <3>2. CASE req'[q] = Free
      BY <3>2, FreeFacts DEF Holds
    <3>3. CASE IsSent(q, req'[q])
      <4>1. Of[q] \in Tabs
        BY TabsAssumption
      <4> QED
        BY <3>3, <4>1 DEF IsSent, IInv, TokensStemFromLogins
    <3> QED
      BY <3>1, <3>2, <3>3 DEF TabFrame
  <2> QED
    BY <2>1, <2>2 DEF IInv, TokensStemFromLogins, Holds, FoundActive, TabFrame
<1>3. LosersFindTheRow' /\ RaceIsNoError'
  BY DEF IInv, LosersFindTheRow, RaceIsNoError, TabFrame, user, processes, Complete, Partial
<1>4. IssuedIsAudited'
  BY FreeFacts DEF IInv, IssuedIsAudited, TabFrame, IsSent
<1>5. ProgressIsSomewhere' /\ NoneCutShort'
  <2>1. phase' = phase
    BY DEF TabFrame, processes
  <2>2. \A q \in Requests : InProgress(q)' => req'[q] = req[q]
    BY FreeFacts DEF TabFrame, IsSent, InProgress
  <2> QED
    BY <2>1, <2>2 DEF IInv, ProgressIsSomewhere, NoneCutShort, InProgress
<1> QED
  BY <1>1, <1>2, <1>3, <1>4, <1>5 DEF IInv, TabFrame

----------------------------------------------------------------------------------
(* Every step                                                                   *)

LEMMA InitIInv == Init => IInv
<1> SUFFICES ASSUME Init PROVE IInv
  OBVIOUS
<1>1. Blank \in Configurations
  BY DEF Blank, Configurations
<1>2. TypeOK
  BY <1>1, FreeFacts, TimesAssumption DEF Init, ApiInit, TypeOK, Phases
<1>3. TokensStemFromLogins
  BY FreeFacts DEF Init, ApiInit, TokensStemFromLogins, Holds
<1>4. /\ LosersFindTheRow /\ RaceIsNoError /\ IssuedIsAudited /\ ProgressIsSomewhere
      /\ NoneCutShort /\ FreeIsForgotten /\ LoadingIsWaiting
  BY FreeFacts DEF Init, ApiInit, LosersFindTheRow, RaceIsNoError, IssuedIsAudited,
     ProgressIsSomewhere, NoneCutShort, FreeIsForgotten, LoadingIsWaiting, InProgress
<1> QED
  BY <1>2, <1>3, <1>4 DEF IInv

\* Who acts, in every step.
LEMMA NextActors ==
  ASSUME Next
  PROVE  \/ \E r \in Replicas : Process(r) /\ UNCHANGED tabs
         \/ \E q \in Requests : Serve(q) /\ UNCHANGED tabs
         \/ (Disable \/ Tick) /\ UNCHANGED tabs
         \/ \E t \in Tabs : Tab(t)
         \/ \E q \in Requests : Browser(q)
BY Zenon DEF Next, ApiNext

LEMMA NextIInv ==
  ASSUME IInv, [Next]_vars
  PROVE  IInv'
<1>1. CASE UNCHANGED vars
  <2>1. UNCHANGED <<now, password, disabledAt, audited, phase, config, excused, req, faults,
                    stored, shown, loading, path, waiting>>
    BY <1>1 DEF vars, apiVars, user, processes, tabs
  <2> QED
    BY <2>1 DEF IInv, TypeOK, TokensStemFromLogins, Holds, FoundActive, LosersFindTheRow,
       RaceIsNoError, Complete, Partial, IssuedIsAudited, ProgressIsSomewhere, NoneCutShort,
       InProgress, FreeIsForgotten, LoadingIsWaiting
<1>2. CASE Next
  BY <1>2, NextActors, ProcessStep, ServeStep, WorldStep, TabSteps, BrowserSteps, TabStep, Zenon
<1> QED
  BY <1>1, <1>2

----------------------------------------------------------------------------------
(* What one account is promised                                                 *)

LEMMA HandsFacts ==
  /\ \A k : k \in InHands <=>
       k # NoToken /\ ((\E t \in Tabs : stored[t] = k)
                       \/ \E q \in Requests : Bears(q) /\ req[q].token = k)
  /\ \A k : k \in InHands' <=>
       k # NoToken /\ ((\E t \in Tabs : stored'[t] = k)
                       \/ \E q \in Requests : Bears(q)' /\ req'[q].token = k)
  /\ \A k : k \in AtWork <=> \E q \in Requests : LetIn(q) /\ req[q].token = k
  /\ \A k : k \in AtWork' <=> \E q \in Requests : LetIn(q)' /\ req'[q].token = k
BY DEF InHands, AtWork

\* Nothing new in anybody's hands.
LEMMA NothingNew ==
  ASSUME UNCHANGED <<now, password, disabledAt>>, InHands' \subseteq InHands, AtWork' \subseteq AtWork
  PROVE  [AccountOf!Next]_(AccountOf!vars)
BY DEF AccountOf!Next, AccountOf!Forget

\* What a handler makes of its request: it lets it in, answers it without handing
\* out a token, has found the account, has signed, or hands out what it signed.
LEMMA ServeShape ==
  ASSUME IInv, NEW q \in Requests, Serve(q)
  PROVE  /\ UNCHANGED <<now, password, disabledAt>>
         /\ \A p \in Requests \ {q} : req'[p] = req[p]
         /\ req'[q].kind = req[q].kind
         /\ \/ /\ req[q].step = "sent" /\ req'[q].step = "accepted"
               /\ req'[q].token = req[q].token
               /\ \E r \in Replicas : req[q].kind = "login" \/ Valid(req[q].token, r)
            \/ /\ req'[q].step = "answered"
               /\ req[q].kind = "login" => req'[q].answer # "ok"
            \/ req[q].kind = "login" /\ req'[q].step = "found" /\ password # Unset
            \/ /\ req[q].step = "found" /\ req'[q].step = "signed"
               /\ req'[q].token = [by |-> req[q].at, at |-> now, found |-> req[q].found]
            \/ /\ req[q].step = "signed" /\ req'[q].step = "answered"
               /\ req'[q].token = req[q].token
<1>1. /\ TypeOK /\ req \in [Requests -> RequestRecords] /\ req[q] \in RequestRecords
  BY DEF IInv, TypeOK
<1>2. Answers = {"none", "ok", "unauthorized", "forbidden", "error", "lost"}
  BY DEF Answers
<1>3. ASSUME NEW a \in Answers, Becomes(q, Answer(q, a))
      PROVE  /\ \A p \in Requests \ {q} : req'[p] = req[p]
             /\ req'[q].step = "answered" /\ req'[q].answer = a
             /\ req'[q].token = req[q].token /\ req'[q].kind = req[q].kind
  BY <1>1, <1>3, AnswerFacts DEF Becomes
<1>4. ASSUME NEW r \in Replicas, Accept(q, r)
      PROVE  /\ UNCHANGED <<now, password, disabledAt>>
             /\ \A p \in Requests \ {q} : req'[p] = req[p]
             /\ req'[q].kind = req[q].kind
             /\ \/ /\ req[q].step = "sent" /\ req'[q].step = "accepted"
                   /\ req'[q].token = req[q].token
                   /\ req[q].kind = "login" \/ Valid(req[q].token, r)
                \/ req'[q].step = "answered" /\ req'[q].answer # "ok"
  <2>1. CASE req[q].kind = "login" \/ Valid(req[q].token, r)
    <3>1. req' = [req EXCEPT ![q] = [req[q] EXCEPT !.step = "accepted", !.at = r]]
      BY <1>4, <2>1 DEF Accept, Becomes
    <3> QED
      BY <1>1, <1>4, <2>1, <3>1 DEF Accept, user, RequestRecords
  <2>2. CASE ~(req[q].kind = "login" \/ Valid(req[q].token, r))
    BY <1>2, <1>3, <1>4, <2>2 DEF Accept, user
  <2> QED
    BY <2>1, <2>2
<1>5. CASE Me(q) \/ Handle(q)
  BY <1>2, <1>3, <1>5 DEF Me, Handle, user
<1>6. ASSUME NEW p \in Passwords, Find(q, p)
      PROVE  /\ UNCHANGED <<now, password, disabledAt>>
             /\ \A x \in Requests \ {q} : req'[x] = req[x]
             /\ req'[q].kind = req[q].kind
             /\ \/ req'[q].step = "answered" /\ req'[q].answer # "ok"
                \/ req[q].kind = "login" /\ req'[q].step = "found" /\ password # Unset
  <2>1. CASE \E a \in {"forbidden", "unauthorized"} : Becomes(q, Answer(q, a))
    BY <1>2, <1>3, <1>6, <2>1 DEF Find, user
  <2>2. CASE password # Unset /\ Becomes(q, [req[q] EXCEPT !.step = "found", !.found = now])
    BY <1>1, <1>6, <2>2 DEF Find, user, Becomes, RequestRecords
  <2> QED
    BY <1>6, <2>1, <2>2 DEF Find
<1>7. CASE Generate(q)
  <2> DEFINE K == [by |-> req[q].at, at |-> now, found |-> req[q].found]
  <2>1. req' = [req EXCEPT ![q] = [req[q] EXCEPT !.step = "signed", !.token = K]]
    BY <1>7 DEF Generate, Becomes
  <2> HIDE DEF K
  <2>2. /\ \A x \in Requests \ {q} : req'[x] = req[x]
        /\ req'[q].step = "signed" /\ req'[q].token = K /\ req'[q].kind = req[q].kind
    BY <1>1, <2>1 DEF RequestRecords
  <2> QED
    BY <1>7, <2>2 DEF Generate, user, K
<1>8. CASE RecordSuccess(q)
  <2>1. CASE Becomes(q, Answer(q, "ok"))
    BY <1>2, <1>3, <1>8, <2>1 DEF RecordSuccess, user
  <2>2. CASE Becomes(q, Refuse(q))
    <3>1. /\ Answer(q, "error") \in RequestRecords /\ Answer(q, "error").step = "answered"
          /\ Answer(q, "error").answer = "error" /\ Answer(q, "error").kind = req[q].kind
      BY <1>1, <1>2, AnswerFacts
    <3>2. /\ Refuse(q).step = "answered" /\ Refuse(q).answer = "error"
          /\ Refuse(q).kind = req[q].kind
      BY <3>1 DEF Refuse, RequestRecords
    <3> QED
      BY <1>1, <1>8, <2>2, <3>2 DEF RecordSuccess, user, Becomes
  <2> QED
    BY <1>8, <2>1, <2>2 DEF RecordSuccess
<1> QED
  BY <1>4, <1>5, <1>6, <1>7, <1>8 DEF Serve, Me, Handle

LEMMA LoginsSignStep ==
  ASSUME IInv, LoginsSign, [Next]_vars
  PROVE  LoginsSign'
<1>1. CASE UNCHANGED vars
  BY <1>1 DEF vars, apiVars, user, LoginsSign
<1>2. ASSUME NEW r \in Replicas, Process(r), UNCHANGED tabs PROVE LoginsSign'
  BY <1>2, ProcessStep DEF ProcessFrame, ReqKept, LoginsSign
<1>3. ASSUME NEW q \in Requests, Serve(q), UNCHANGED tabs PROVE LoginsSign'
  <2>1. /\ UNCHANGED <<now, password, disabledAt>>
        /\ \A p \in Requests \ {q} : req'[p] = req[p]
    BY <1>3, ServeShape
  <2>2. /\ req'[q].step \in {"found", "signed"} => password # Unset
        /\ req'[q].step = "signed" =>
             req'[q].token = [by |-> req[q].at, at |-> now, found |-> req[q].found]
        /\ req'[q].step = "signed" => req[q].step = "found"
    BY <1>3, ServeShape DEF LoginsSign
  <2>3. req'[q].step = "signed" =>
          /\ req'[q].token # NoToken
          /\ req'[q].token.found <= req'[q].token.at /\ req'[q].token.at <= now
    <3> SUFFICES ASSUME req'[q].step = "signed"
                 PROVE  /\ req'[q].token # NoToken
                        /\ req'[q].token.found <= req'[q].token.at /\ req'[q].token.at <= now
      OBVIOUS
    <3>1. req[q].found <= now /\ now \in Nat
      BY <2>2 DEF IInv, TypeOK, TokensStemFromLogins, FoundActive
    <3>2. req[q].at \in Replicas /\ req[q].found \in Nat
      BY <2>2 DEF IInv, TypeOK, RequestRecords, ProgressIsSomewhere, InProgress
    <3>3. [by |-> req[q].at, at |-> now, found |-> req[q].found] \in Tokens
      BY <3>1, <3>2 DEF Tokens
    <3> QED
      BY <2>2, <3>1, <3>3, NoTokenAssumption
  <2> QED
    BY <2>1, <2>2, <2>3 DEF LoginsSign
<1>4. CASE (Disable \/ Tick) /\ UNCHANGED tabs
  <2>1. UNCHANGED <<password, req>> /\ now \in Nat /\ (now' = now \/ now' = now + 1)
    BY <1>4 DEF Disable, Tick, user, IInv, TypeOK
  <2>2. \A q \in Requests : req[q].token # NoToken => req[q].token.at \in Nat
    BY DEF IInv, TypeOK, RequestRecords, Tokens
  <2> QED
    BY <2>1, <2>2 DEF LoginsSign
<1>5. CASE \/ \E t \in Tabs : Tab(t)
           \/ \E q \in Requests : Browser(q)
  <2>1. TabFrame
    BY <1>5, TabSteps, BrowserSteps
  <2> QED
    BY <2>1, FreeFacts DEF TabFrame, IsSent, user, LoginsSign
<1> QED
  BY <1>1, <1>2, <1>3, <1>4, <1>5, NextActors

LEMMA LoginsAskedStep ==
  ASSUME IInv, LoginsAsked, [Next]_vars
  PROVE  LoginsAsked'
<1>0. /\ waiting \in [Requests -> {"nobody", "login", "mount", "page"}]
      /\ req \in [Requests -> RequestRecords] /\ TypeOK
      /\ \A q \in Requests : req[q].step = "free" => waiting[q] = "nobody"
  BY DEF IInv, TypeOK, FreeIsForgotten
<1>1. CASE UNCHANGED vars
  BY <1>1 DEF vars, apiVars, tabs, LoginsAsked
<1>2. ASSUME NEW r \in Replicas, Process(r), UNCHANGED tabs PROVE LoginsAsked'
  BY <1>2, ProcessStep DEF ProcessFrame, ReqKept, LoginsAsked, tabs
<1>3. ASSUME NEW q \in Requests, Serve(q), UNCHANGED tabs PROVE LoginsAsked'
  <2>1. \A p \in Requests : req'[p].kind = req[p].kind
    BY <1>3, ServeShape
  <2> QED
    BY <1>3, <2>1 DEF LoginsAsked, tabs
<1>4. CASE (Disable \/ Tick) /\ UNCHANGED tabs
  BY <1>4 DEF Disable, Tick, tabs, LoginsAsked
<1>5. ASSUME NEW t \in Tabs, Tab(t) PROVE LoginsAsked'
  <2>1. \A q \in Requests : waiting'[q] = "login" => waiting[q] = "login" /\ req'[q] = req[q]
    <3>1. CASE Logout(t)
      BY <3>1 DEF Logout, apiVars
    <3>2. CASE Reload(t)
      <4> DEFINE dropped == [q \in Requests |-> IF Of[q] = t THEN "nobody" ELSE waiting[q]]
      <4>1. CASE waiting' = dropped /\ UNCHANGED apiVars
        BY <4>1 DEF apiVars
      <4>2. CASE \E q \in Requests :
                   /\ waiting' = [dropped EXCEPT ![q] = "mount"]
                   /\ req' = [req EXCEPT ![q] = [Free EXCEPT !.step = "sent", !.kind = "me",
                                                             !.token = stored[t]]]
        BY <1>0, <4>2
      <4> QED
        BY <3>2, <4>1, <4>2 DEF Reload
    <3> QED
      BY <1>5, <3>1, <3>2 DEF Tab
  <2> QED
    BY <2>1 DEF LoginsAsked
<1>6. ASSUME NEW q \in Requests, Browser(q) PROVE LoginsAsked'
  <2>1. \A p \in Requests \ {q} : waiting'[p] = waiting[p] /\ req'[p] = req[p]
    <3>1. CASE SubmitLogin(q) \/ Load(q)
      BY <1>0, <3>1 DEF SubmitLogin, Load, Send
    <3>2. CASE Succeeds(q) \/ IsRejected(q)
      BY <1>0, <3>2 DEF Succeeds, IsRejected, Dropped
    <3>3. CASE Timeout(q) \/ Vanish(q)
      BY <1>0, <3>3 DEF Timeout, Vanish, Dropped, apiVars, tabs
    <3> QED
      BY <1>6, <3>1, <3>2, <3>3 DEF Browser
  <2>2. waiting'[q] = "login" => req'[q].kind = "login"
    <3>1. CASE SubmitLogin(q)
      <4>1. req' = [req EXCEPT ![q] = [Free EXCEPT !.step = "sent", !.kind = "login",
                                                   !.token = stored[Of[q]]]]
        BY <3>1 DEF SubmitLogin, Send
      <4>2. [Free EXCEPT !.step = "sent", !.kind = "login", !.token = stored[Of[q]]].kind = "login"
        BY DEF Free
      <4> QED
        BY <1>0, <4>1, <4>2
    <3>2. CASE ~SubmitLogin(q)
      BY <1>0, <1>6, <3>2 DEF Browser, Load, Send, Succeeds, IsRejected, Timeout, Vanish,
         Dropped, tabs
    <3> QED
      BY <3>1, <3>2
  <2> QED
    BY <2>1, <2>2 DEF LoginsAsked
<1> QED
  BY <1>1, <1>2, <1>3, <1>4, <1>5, <1>6, NextActors

\* A tab stores what it had stored or what a login answered it.
LEMMA StoredFromHands ==
  ASSUME IInv, LoginsAsked,
         \/ \E t \in Tabs : Tab(t)
         \/ \E q \in Requests : Browser(q)
  PROVE  \A t \in Tabs : stored'[t] # NoToken => stored'[t] \in InHands
<1>1. \A t \in Tabs : stored[t] # NoToken => stored[t] \in InHands
  BY HandsFacts
<1>2. stored \in [Tabs -> Tokens \cup {NoToken}]
  BY DEF IInv, TypeOK
<1>3. ASSUME NEW t \in Tabs, NEW token, token # NoToken => token \in InHands,
             stored' = [stored EXCEPT ![t] = token]
      PROVE  \A x \in Tabs : stored'[x] # NoToken => stored'[x] \in InHands
  <2> DEFINE hands == InHands
  <2>1. /\ \A x \in Tabs : stored[x] # NoToken => stored[x] \in hands
        /\ token # NoToken => token \in hands
    BY <1>1, <1>3
  <2> HIDE DEF hands
  <2>2. \A x \in Tabs : stored'[x] # NoToken => stored'[x] \in hands
    BY ONLY <1>2, <1>3, <2>1
  <2> QED
    BY <2>2 DEF hands
<1>4. CASE UNCHANGED stored
  BY <1>1, <1>4
<1>5. ASSUME NEW t \in Tabs, Tab(t)
      PROVE  \A x \in Tabs : stored'[x] # NoToken => stored'[x] \in InHands
  <2>1. stored' = [stored EXCEPT ![t] = stored[t]] \/ stored' = [stored EXCEPT ![t] = NoToken]
    BY <1>5 DEF Tab, Reload, Logout, Show
  <2> QED
    BY <1>1, <1>3, <2>1
<1>6. ASSUME NEW q \in Requests, Browser(q)
      PROVE  \A x \in Tabs : stored'[x] # NoToken => stored'[x] \in InHands
  <2>0. Of[q] \in Tabs
    BY TabsAssumption
  <2>1. CASE UNCHANGED stored
    BY <1>4, <2>1
  <2>2. CASE \E token \in {NoToken, stored[Of[q]]} : stored' = [stored EXCEPT ![Of[q]] = token]
    BY <1>1, <1>3, <2>0, <2>2
  <2>3. CASE /\ req[q].step = "answered" /\ req[q].answer = "ok" /\ waiting[q] = "login"
             /\ stored' = [stored EXCEPT ![Of[q]] = req[q].token]
    <3>1. req[q].token # NoToken => req[q].token \in InHands
      BY <2>3, HandsFacts DEF Bears, LoginsAsked
    <3> QED
      BY <1>3, <2>0, <2>3, <3>1
  <2> QED
    BY <1>6, <2>1, <2>2, <2>3 DEF Browser, SubmitLogin, Load, Succeeds, IsRejected, Timeout, Vanish,
       Reject, Show, tabs
<1> QED
  BY <1>5, <1>6

\* Handlers hand out tokens and let them in.
LEMMA ServeKeeps ==
  ASSUME IInv, LoginsSign, NEW q \in Requests, Serve(q), UNCHANGED tabs
  PROVE  [AccountOf!Next]_(AccountOf!vars)
<1> DEFINE k == req[q].token
<1>0. /\ UNCHANGED <<now, password, disabledAt, stored>>
      /\ \A p \in Requests \ {q} : req'[p] = req[p]
      /\ req'[q].kind = req[q].kind
  BY ServeShape DEF tabs
<1>1. \A p \in Requests \ {q} : (Bears(p)' <=> Bears(p)) /\ (LetIn(p)' <=> LetIn(p))
  BY <1>0 DEF Bears, LetIn
<1>2. CASE ~Bears(q)' /\ ~LetIn(q)'
  <2>1. InHands' \subseteq InHands /\ AtWork' \subseteq AtWork
    BY <1>0, <1>1, <1>2, HandsFacts
  <2> QED
    BY <1>0, <2>1, NothingNew
<1>3. CASE LetIn(q)'
  <2>1. /\ req[q].step = "sent" /\ req[q].kind # "login" /\ req'[q].token = k
        /\ \E r \in Replicas : Valid(k, r)
    BY <1>0, <1>3, ServeShape DEF LetIn
  <2>2. Bears(q) /\ ~Bears(q)' /\ k # NoToken /\ k \in InHands
    BY <1>3, <2>1, HandsFacts DEF Bears, LetIn, Valid
  <2>3. ~LetIn(q)
    BY <2>1 DEF LetIn
  <2>4. InHands' = InHands \/ InHands' = InHands \ {k}
    <3>1. \A x : x # k => (x \in InHands' <=> x \in InHands)
      BY <1>0, <1>1, <2>2, HandsFacts
    <3> QED
      BY <2>2, <3>1, SetExtensionality
  <2>5. AtWork' = AtWork \cup {k}
    BY <1>0, <1>1, <1>3, <2>1, <2>3, HandsFacts, SetExtensionality
  <2>6. PICK r \in Replicas : now + Skew[r] < k.at + Skew[k.by] + TTL
    BY <2>1 DEF Valid
  <2> HIDE DEF k
  <2>7. AccountOf!Admit(k, r)
    BY <1>0, <2>4, <2>5, <2>6 DEF AccountOf!Admit
  <2> QED
    BY <2>2, <2>7 DEF AccountOf!Next, AccountOf!Admit
<1>4. CASE Bears(q)'
  <2>1. /\ req[q].kind = "login" /\ req[q].step = "signed" /\ req'[q].token = k
        /\ req'[q].step = "answered"
    BY <1>0, <1>4, ServeShape DEF Bears
  <2>2. k # NoToken /\ k.found <= k.at /\ k.at <= now /\ password # Unset
    BY <2>1 DEF LoginsSign
  <2>3. k \in Tokens /\ now \in Nat /\ (disabledAt # Never => k.found <= disabledAt)
    BY <2>2 DEF IInv, TypeOK, RequestRecords, TokensStemFromLogins, Holds, FoundActive
  <2>4. /\ k.by \in Replicas /\ k.at \in 0..now /\ k.found \in 0..k.at
        /\ k = [by |-> k.by, at |-> k.at, found |-> k.found]
    BY <2>2, <2>3 DEF Tokens
  <2>5. ~Bears(q) /\ ~LetIn(q) /\ ~LetIn(q)'
    BY <2>1 DEF Bears, LetIn
  <2>6. InHands' = InHands \cup {k}
    BY <1>0, <1>1, <1>4, <2>1, <2>2, <2>5, HandsFacts, SetExtensionality
  <2>7. AtWork' = AtWork
    <3>1. \A p \in Requests : (LetIn(p)' <=> LetIn(p)) /\ (LetIn(p) => req'[p].token = req[p].token)
      BY <1>0, <1>1, <2>5
    <3>2. \A x : x \in AtWork' <=> x \in AtWork
      BY <3>1, HandsFacts
    <3> QED
      BY <3>2, SetExtensionality
  <2> HIDE DEF k
  <2>8. AccountOf!Grant(k.by, k.found, k.at)
    BY <1>0, <2>2, <2>3, <2>4, <2>6, <2>7 DEF AccountOf!Grant
  <2> QED
    BY <2>4, <2>8 DEF AccountOf!Next, AccountOf!Grant
<1> QED
  BY <1>2, <1>3, <1>4

LEMMA StepKeeps ==
  ASSUME IInv, LoginsSign, LoginsAsked, [Next]_vars
  PROVE  [AccountOf!Next]_(AccountOf!vars)
<1>1. ASSUME UNCHANGED <<now, password, disabledAt, req, stored>>
      PROVE  [AccountOf!Next]_(AccountOf!vars)
  BY <1>1, NothingNew DEF InHands, AtWork, Bears, LetIn
<1>2. CASE UNCHANGED vars
  BY <1>1, <1>2 DEF vars, apiVars, user, tabs
<1>3. ASSUME NEW r \in Replicas, Process(r), UNCHANGED tabs
      PROVE  [AccountOf!Next]_(AccountOf!vars)
  <2>0. ProcessFrame(r) /\ UNCHANGED <<now, disabledAt, stored>>
    BY <1>3, ProcessStep DEF ProcessFrame, tabs
  <2>1. CASE password' = password
    <3>1. \A q \in Requests :
            /\ req'[q].token = req[q].token
            /\ Bears(q)' => Bears(q)
            /\ LetIn(q)' => LetIn(q)
      BY <2>0 DEF ProcessFrame, ReqKept, Bears, LetIn
    <3>2. InHands' \subseteq InHands /\ AtWork' \subseteq AtWork
      BY <2>0, <3>1, HandsFacts
    <3> QED
      BY <2>0, <2>1, <3>2, NothingNew
  <2>2. CASE password' # password
    <3>1. password = Unset /\ password' \in Passwords
      BY <2>0, <2>2 DEF ProcessFrame
    <3>2. req' = req
      BY <1>3, <2>2 DEF Process, Start, SkipBootstrap, FindUser, CreateUser, RereadUser, Signal,
         Shutdown, Deadline, Kill, user
    <3>3. InHands' = InHands /\ AtWork' = AtWork
      BY <2>0, <3>2 DEF InHands, AtWork, Bears, LetIn
    <3>4. AccountOf!Create(password')
      BY <2>0, <3>1, <3>3 DEF AccountOf!Create
    <3> QED
      BY <3>1, <3>4 DEF AccountOf!Next, AccountOf!Create
  <2> QED
    BY <2>1, <2>2
<1>4. CASE (Disable \/ Tick) /\ UNCHANGED tabs
  <2>1. InHands' = InHands /\ AtWork' = AtWork
    BY <1>4 DEF Disable, Tick, tabs, InHands, AtWork, Bears, LetIn
  <2> QED
    BY <1>4, <2>1 DEF Disable, Tick, user, AccountOf!Next, AccountOf!Disable, AccountOf!Tick
<1>5. CASE \/ \E t \in Tabs : Tab(t)
           \/ \E q \in Requests : Browser(q)
  <2>0. TabFrame /\ UNCHANGED <<now, password, disabledAt>>
    BY <1>5, TabSteps, BrowserSteps DEF TabFrame, user
  <2>1. \A t \in Tabs : stored'[t] # NoToken => stored'[t] \in InHands
    BY <1>5, StoredFromHands
  <2>2. ASSUME NEW q \in Requests
        PROVE  /\ Bears(q)' /\ req'[q].token # NoToken => req'[q].token \in InHands
               /\ LetIn(q)' => LetIn(q) /\ req'[q].token = req[q].token
    <3>0. Of[q] \in Tabs
      BY TabsAssumption
    <3>1. CASE req'[q] = req[q]
      BY <3>1, HandsFacts DEF Bears, LetIn
    <3>2. CASE req'[q] = Free
      BY <3>2, FreeFacts DEF Bears, LetIn
    <3>3. CASE IsSent(q, req'[q])
      BY <3>0, <3>3, HandsFacts DEF IsSent, LetIn
    <3> QED
      BY <2>0, <3>1, <3>2, <3>3 DEF TabFrame
  <2>3. InHands' \subseteq InHands /\ AtWork' \subseteq AtWork
    BY <2>1, <2>2, HandsFacts
  <2> QED
    BY <2>0, <2>3, NothingNew
<1> QED
  BY <1>2, <1>3, <1>4, <1>5, ServeKeeps, NextActors

----------------------------------------------------------------------------------
(* The theorems                                                                 *)

\* The domains of the variables of replicas, requests and tabs.
THEOREM TypeCorrect == Spec => []TypeOK
<1>1. IInv => TypeOK
  BY DEF IInv
<1> QED
  BY <1>1, InitIInv, NextIInv, PTL DEF Spec

(* bootstrap.go:29-38: however many replicas start at once, with whatever       *)
(* configurations, none ends with an error because another created the user.    *)
THEOREM LosersGoOn == Spec => []RaceIsNoError
<1>1. IInv => RaceIsNoError
  BY DEF IInv
<1> QED
  BY <1>1, InitIInv, NextIInv, PTL DEF Spec

(* service.go:57-63: no token leaves the API unless its login is in the audit   *)
(* log, whatever fails.                                                         *)
THEOREM LoginsAreAudited == Spec => []IssuedIsAudited
<1>1. IInv => IssuedIsAudited
  BY DEF IInv
<1> QED
  BY <1>1, InitIInv, NextIInv, PTL DEF Spec

(* cmd/api/main.go:111-116: a replica that ended in order left no request.      *)
THEOREM RequestsAreFinished == Spec => []NoneCutShort
<1>1. IInv => NoneCutShort
  BY DEF IInv
<1> QED
  BY <1>1, InitIInv, NextIInv, PTL DEF Spec

(* AuthContext.tsx:14-26: a tab that shows the loading screen has a request     *)
(* under way whose answer or timeout ends it.                                   *)
THEOREM LoadingEnds == Spec => []LoadingIsWaiting
<1>1. IInv => LoadingIsWaiting
  BY DEF IInv
<1> QED
  BY <1>1, InitIInv, NextIInv, PTL DEF Spec

(* bootstrap.go:19-23: the password of a user that exists never changes.        *)
THEOREM PasswordStays == Spec => BootstrapNeverResets
<1>1. ASSUME IInv, [Next]_vars
      PROVE  [password # Unset => password' = password]_vars
  <2>1. CASE Next
    BY <1>1, <2>1, NextActors, ProcessStep, ServeStep, TabSteps, BrowserSteps
       DEF ProcessFrame, ServeFrame, TabFrame, Disable, Tick, user
  <2> QED
    BY <1>1, <2>1
<1> QED
  BY <1>1, InitIInv, NextIInv, PTL DEF Spec, BootstrapNeverResets

(* token.go:64-80 and middleware.go:10-26: a disabled account is let in only    *)
(* with tokens of logins from before, and only until they expire, give or take  *)
(* how far two clocks are apart.                                                *)
THEOREM AccessIsBounded == Spec => AccessEnds
<1>1. ASSUME IInv, [Next]_vars, NEW q \in Requests,
             req[q].step = "sent", req[q].kind # "login", req'[q].step = "accepted"
      PROVE  /\ disabledAt # Never => req[q].token.found <= disabledAt
             /\ now < req[q].token.at + TTL + Skew[req[q].token.by] - Skew[req'[q].at]
  <2>1. \E r \in Replicas : Accept(q, r)
    <3>1. Next
      BY <1>1 DEF vars, apiVars
    <3>2. CASE \E r \in Replicas : Process(r) /\ UNCHANGED tabs
      BY <1>1, <3>2, ProcessStep DEF ProcessFrame, ReqKept
    <3>3. CASE \E p \in Requests : Serve(p) /\ UNCHANGED tabs
      <4> PICK p \in Requests : Serve(p) /\ UNCHANGED tabs
        BY <3>3
      <4>1. p = q
        BY <1>1, ServeStep DEF ServeFrame
      <4> QED
        BY <1>1, <4>1 DEF Serve, Me, Handle, Find, Generate, RecordSuccess
    <3>4. CASE Disable \/ Tick
      BY <1>1, <3>4 DEF Disable, Tick
    <3>5. CASE \/ \E t \in Tabs : Tab(t)
               \/ \E p \in Requests : Browser(p)
      BY <1>1, <3>5, TabSteps, BrowserSteps, FreeFacts DEF TabFrame, IsSent
    <3> QED
      BY <3>1, <3>2, <3>3, <3>4, <3>5, NextActors
  <2>2. PICK r \in Replicas : Accept(q, r)
    BY <2>1
  <2>3. TypeOK /\ req[q] \in RequestRecords
    BY <1>1 DEF IInv, TypeOK
  <2>4. Valid(req[q].token, r)
    <3> SUFFICES ASSUME ~ Valid(req[q].token, r) PROVE FALSE
      OBVIOUS
    <3>1. req'[q] = Answer(q, "unauthorized")
      BY <1>1, <2>2, <2>3 DEF Accept, Becomes, TypeOK
    <3>2. Answer(q, "unauthorized").step = "answered"
      BY <2>3, AnswerFacts DEF Answers
    <3> QED
      BY <1>1, <3>1, <3>2
  <2>5. req'[q].at = r
    <3>1. req'[q] = [req[q] EXCEPT !.step = "accepted", !.at = r]
      BY <1>1, <2>2, <2>3, <2>4 DEF Accept, Becomes, TypeOK
    <3> QED
      BY <2>3, <3>1 DEF RequestRecords
  <2>6. req[q].token \in Tokens /\ req[q].token # NoToken
    BY <2>3, <2>4 DEF RequestRecords, Valid
  <2>7. disabledAt # Never => req[q].token.found <= disabledAt
    BY <1>1, <2>6 DEF IInv, TokensStemFromLogins, Holds, FoundActive
  <2>8. /\ Skew[r] \in Nat /\ Skew[req[q].token.by] \in Nat
        /\ req[q].token.at \in Nat /\ now \in Nat /\ TTL \in Nat
    BY <2>3, <2>6, ReplicasAssumption, TimesAssumption DEF TypeOK, Tokens
  <2> QED
    BY <2>4, <2>5, <2>7, <2>8 DEF Valid
<1>2. ASSUME IInv, [Next]_vars
      PROVE  [\A q \in Requests :
                (req[q].step = "sent" /\ req[q].kind # "login" /\ req'[q].step = "accepted") =>
                  /\ disabledAt # Never => req[q].token.found <= disabledAt
                  /\ now < req[q].token.at + TTL
                             + Skew[req[q].token.by] - Skew[req'[q].at]]_vars
  BY <1>1, <1>2
<1> QED
  BY <1>2, InitIInv, NextIInv, PTL DEF Spec, AccessEnds

(* All replicas and tabs together look like one account: its password is set    *)
(* once, and whatever is stored, reloaded, timed out or cut short, a token comes*)
(* from a login that found the account active and is let in only while it lasts.*)
THEOREM AccountIsKept == Spec => ImplementsAccount
<1>1. Init => AccountOf!Init /\ LoginsSign /\ LoginsAsked
  <2> SUFFICES ASSUME Init PROVE AccountOf!Init /\ LoginsSign /\ LoginsAsked
    OBVIOUS
  <2>1. InHands = {}
    <3>1. \A k : k \notin InHands
      BY HandsFacts, FreeFacts DEF Init, ApiInit, Bears
    <3> QED
      BY <3>1
  <2>2. AtWork = {}
    <3>1. \A k : k \notin AtWork
      BY HandsFacts, FreeFacts DEF Init, ApiInit, LetIn
    <3> QED
      BY <3>1
  <2>3. LoginsSign /\ LoginsAsked
    BY FreeFacts DEF Init, ApiInit, LoginsSign, LoginsAsked
  <2> QED
    BY <2>1, <2>2, <2>3 DEF Init, ApiInit, AccountOf!Init
<1> QED
  BY <1>1, InitIInv, NextIInv, LoginsSignStep, LoginsAskedStep, StepKeeps, PTL
     DEF Spec, ImplementsAccount, AccountOf!Spec
===================================================================================
