--------------------------------- MODULE Account ---------------------------------
(* What the API promises about an account and the tokens for it, however many   *)
(* replicas answer and tabs ask: the password is set once, tokens are handed    *)
(* out only for logins that found the account active, and a token lets its      *)
(* bearer in only until it expires, by the clock of the replica that is asked.  *)
(* That is all a disabled account can count on: nobody takes a token back.      *)
(*                                                                              *)
(* Console implements this specification.                                       *)
EXTENDS Integers

CONSTANTS
  Replicas, Skew,   \* who signs and checks tokens, by which clock
  Passwords, Unset,
  Never,
  TTL               \* how long a token is good

VARIABLES
  now,
  password,     \* Unset before there is an account
  disabledAt,   \* Never while it is active
  held,         \* the tokens somebody may still use
  used          \* the tokens of the requests that were let in and are not done

vars == <<now, password, disabledAt, held, used>>

Init ==
  /\ now = 0
  /\ password = Unset /\ disabledAt = Never
  /\ held = {} /\ used = {}

Tick == now' = now + 1 /\ UNCHANGED <<password, disabledAt, held, used>>

Create(p) ==
  /\ password = Unset
  /\ password' = p
  /\ UNCHANGED <<now, disabledAt, held, used>>

Disable ==
  /\ password # Unset /\ disabledAt = Never
  /\ disabledAt' = now
  /\ UNCHANGED <<now, password, held, used>>

\* A login that found the account active hands out what it signed since.
Grant(r, found, at) ==
  /\ password # Unset
  /\ disabledAt # Never => found <= disabledAt
  /\ held' = held \cup {[by |-> r, at |-> at, found |-> found]}
  /\ UNCHANGED <<now, password, disabledAt, used>>

\* A replica lets in who bears a token that has not expired; it does not look at
\* the account.
Admit(k, r) ==
  /\ now + Skew[r] < k.at + Skew[k.by] + TTL
  /\ held' \in {held, held \ {k}}
  /\ used' = used \cup {k}
  /\ UNCHANGED <<now, password, disabledAt>>

\* Tokens are forgotten, requests are done.
Forget ==
  /\ held' \in SUBSET held
  /\ used' \in SUBSET used
  /\ UNCHANGED <<now, password, disabledAt>>

Next ==
  \/ Tick
  \/ \E p \in Passwords : Create(p)
  \/ Disable
  \/ \E r \in Replicas : \E at \in 0..now : \E found \in 0..at : Grant(r, found, at)
  \/ \E k \in held, r \in Replicas : Admit(k, r)
  \/ Forget

Spec == Init /\ [][Next]_vars
==================================================================================
