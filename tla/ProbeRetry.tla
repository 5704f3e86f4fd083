-------------------------------- MODULE ProbeRetry --------------------------------
(* One probe of a target (internal/probe: ExecuteWithRetry, retryable, the HTTP *)
(* and TCP probes): attempts with a deadline each, retried after a delay that   *)
(* doubles, until one succeeds, cannot be retried or is the last.               *)
(*                                                                              *)
(* How long that takes decides whether a worker still owns its execution when   *)
(* it records the result: another worker takes over a running execution after   *)
(* MESSAGE_IDLE_TIMEOUT.                                                        *)
EXTENDS Integers

CONSTANTS
  Timeouts,      \* values of timeout_milliseconds
  Delays,        \* values of retry_base_delay_milliseconds
  MaxTimeout,    \* their upper limits
  MaxDelay,
  IdleTimeout    \* MESSAGE_IDLE_TIMEOUT

\* The limit on max_retries; 1 << attempt for the attempts it allows.
MaxRetries == 5
Doubling == <<1, 2, 4, 8, 16, 32>>

\* Every attempt runs into its deadline, every delay is waited for.
WorstCase == (MaxRetries + 1) * MaxTimeout + MaxDelay * (Doubling[MaxRetries + 1] - 1)

ASSUME LimitsAssumption ==
  /\ MaxTimeout \in Nat /\ MaxDelay \in Nat /\ IdleTimeout \in Nat
  /\ Timeouts \subseteq 0..MaxTimeout
  /\ Delays \subseteq 0..MaxDelay
ASSUME IdleAssumption == WorstCase < IdleTimeout

VARIABLES
  timeout, retries, delay,   \* the task's settings
  pc,         \* "attempt", "delay" or "returned"
  attempt,    \* the loop variable
  outcome,    \* what the last attempt returned
  canceled,   \* the worker shuts down
  elapsed,    \* since the start
  calls,      \* how often the target was probed
  attempts    \* the attempt_count that is recorded

settings == <<timeout, retries, delay>>
vars == <<settings, pc, attempt, outcome, canceled, elapsed, calls, attempts>>

----------------------------------------------------------------------------------
(* What an attempt can return: (Result, error)                                  *)

Outcome(success, status, code, error) ==
  [success |-> success, status |-> status, code |-> code, error |-> error]

NoOutcome == Outcome(FALSE, 0, "none", "none")
Success == {Outcome(TRUE, 200, "none", "none"),     \* HTTP 2xx and 3xx
            Outcome(TRUE, 0, "none", "none")}       \* TCP
StatusErrors == {Outcome(FALSE, s, "http_status_error", "none") : s \in {101, 404, 503}}
\* classified(err), and the invalid targets
Classified ==
  {Outcome(FALSE, 0, c, "other") :
     c \in {"network_denied", "dns_error", "timeout", "tls_error", "connection_refused",
            "network_error"}}
Cancellations ==
  {Outcome(FALSE, 0, c, "canceled") : c \in {"dns_error", "network_error"}}
\* The result that replaces the last one when the worker stops during a delay.
Interrupted == Outcome(FALSE, 0, "network_error", "none")

\* HTTPProbe.Execute and TCPProbe.Execute.
Execute == Success \cup StatusErrors \cup Classified \cup (IF canceled THEN Cancellations ELSE {})

Transient == {"dns_error", "connection_refused", "timeout", "tls_error", "network_error"}

\* retryable: a denied target is retried, its error is no transient one but an
\* error all the same.
Retryable(o) ==
  /\ o.error # "canceled"
  /\ ~ o.status \in 400..499
  /\ o.status >= 500 \/ o.code \in Transient \/ o.error # "none"

----------------------------------------------------------------------------------
Init ==
  /\ timeout \in Timeouts
  /\ retries \in 0..MaxRetries
  /\ delay \in Delays
  /\ pc = "attempt"
  /\ attempt = 0
  /\ outcome = NoOutcome
  /\ canceled = FALSE
  /\ elapsed = 0
  /\ calls = 0
  /\ attempts = 0

Cancel ==
  /\ ~canceled
  /\ canceled' = TRUE
  /\ UNCHANGED <<settings, pc, attempt, outcome, elapsed, calls, attempts>>

Last(o) == o.success \/ ~Retryable(o) \/ attempt = retries

\* One attempt, ended by its deadline at the latest.
Attempt(o, d) ==
  /\ pc = "attempt"
  /\ elapsed' = elapsed + d
  /\ calls' = calls + 1
  /\ outcome' = o
  /\ IF Last(o) THEN pc' = "returned" /\ attempts' = attempt + 1
                ELSE pc' = "delay" /\ UNCHANGED attempts
  /\ UNCHANGED <<settings, attempt, canceled>>

\* Faulty variant: the first delay is doubled already.
BackoffDoubled == delay * Doubling[attempt + 1] * 2

Backoff == delay * Doubling[attempt + 1]

\* The delay has passed.
Retry ==
  /\ pc = "delay"
  /\ elapsed' = elapsed + Backoff
  /\ attempt' = attempt + 1
  /\ pc' = "attempt"
  /\ UNCHANGED <<settings, outcome, canceled, calls, attempts>>

\* Faulty variant: counts the attempt that did not take place.
AbandonCountsNext(d) ==
  /\ pc = "delay"
  /\ canceled
  /\ elapsed' = elapsed + d
  /\ outcome' = Interrupted
  /\ attempts' = attempt + 2
  /\ pc' = "returned"
  /\ UNCHANGED <<settings, attempt, canceled, calls>>

\* The context is done during the delay.
Abandon(d) ==
  /\ pc = "delay"
  /\ canceled
  /\ elapsed' = elapsed + d
  /\ outcome' = Interrupted
  /\ attempts' = attempt + 1
  /\ pc' = "returned"
  /\ UNCHANGED <<settings, attempt, canceled, calls>>

Next ==
  \/ Cancel
  \/ \E o \in Execute, d \in 0..timeout : Attempt(o, d)
  \/ Retry
  \/ \E d \in 0..Backoff : Abandon(d)

Spec == Init /\ [][Next]_vars

----------------------------------------------------------------------------------
(* Properties                                                                   *)

\* A worker is never overtaken by the takeover of its own execution: whatever the
\* settings the API accepts, a probe ends before MESSAGE_IDLE_TIMEOUT.
EndsWhileOwned == elapsed < IdleTimeout

\* attempt_count is the number of times the target was probed, also if the worker
\* was stopped between two attempts, and never more than the task allows.
AttemptsCounted ==
  /\ calls <= retries + 1
  /\ pc = "returned" => attempts = calls

----------------------------------------------------------------------------------
(* The inductive invariant                                                      *)

TypeOK ==
  /\ timeout \in Timeouts /\ retries \in 0..MaxRetries /\ delay \in Delays
  /\ pc \in {"attempt", "delay", "returned"}
  /\ attempt \in 0..retries
  /\ outcome \in {NoOutcome, Interrupted} \cup Success \cup StatusErrors \cup Classified
                  \cup Cancellations
  /\ canceled \in BOOLEAN
  /\ elapsed \in Nat /\ calls \in Nat /\ attempts \in Nat

\* What the attempts and delays so far may have taken: the delays before attempt
\* n add up to delay * (2^n - 1).
Budget ==
  /\ pc = "attempt" =>
       elapsed <= attempt * timeout + delay * (Doubling[attempt + 1] - 1)
  /\ pc = "delay" =>
       elapsed <= (attempt + 1) * timeout + delay * (Doubling[attempt + 1] - 1)
  /\ pc = "returned" => elapsed <= WorstCase

Counted ==
  /\ pc = "attempt" => calls = attempt
  /\ pc \in {"delay", "returned"} => calls = attempt + 1
  /\ pc = "delay" => attempt < retries
  /\ pc = "returned" => attempts = calls

IInv == TypeOK /\ Budget /\ Counted
===================================================================================
