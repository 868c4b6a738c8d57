------------------------------- MODULE Outbox -------------------------------
(***************************************************************************)
(* What becomes of a confirmation, with no process, pool, worker or queue  *)
(* in sight: a guest is owed a mail only after the confirmation; the debt  *)
(* is settled once, as done when a mail went out or as given up after the  *)
(* retries, and stays settled; and each mail is drawn on a budget of one,  *)
(* which a repeated attempt raises.  A mail may still leave after the debt *)
(* is settled, since the sender of a given up attempt is not stopped.      *)
(***************************************************************************)
EXTENDS Integers

CONSTANTS
  Requests, \* confirm requests
  MaxRetry  \* repeated attempts before a mail is given up

VARIABLES
  confirmed, \* requests whose confirmation is committed
  fate,      \* of the mail: "none", "owed", "done" or "given_up"
  mails,     \* how many were sent
  budget     \* how many may be sent at most

vars == <<confirmed, fate, mails, budget>>

Init ==
  /\ confirmed = {}
  /\ fate = [r \in Requests |-> "none"]
  /\ mails = [r \in Requests |-> 0]
  /\ budget = [r \in Requests |-> 1]

Confirm(r) ==
  /\ r \notin confirmed
  /\ confirmed' = confirmed \cup {r}
  /\ UNCHANGED <<fate, mails, budget>>

Owe(r) ==
  /\ r \in confirmed
  /\ fate[r] = "none"
  /\ fate' = [fate EXCEPT ![r] = "owed"]
  /\ UNCHANGED <<confirmed, mails, budget>>

\* An attempt is repeated, or given back undone.
Repeat(r) ==
  /\ fate[r] = "owed"
  /\ budget' = [budget EXCEPT ![r] = @ + 1]
  /\ UNCHANGED <<confirmed, fate, mails>>

Mail(r) ==
  /\ fate[r] # "none"
  /\ mails[r] < budget[r]
  /\ mails' = [mails EXCEPT ![r] = @ + 1]
  /\ UNCHANGED <<confirmed, fate, budget>>

Settle(r, how) ==
  /\ fate[r] = "owed"
  /\ how = "done" => mails[r] > 0
  /\ how = "given_up" => budget[r] > MaxRetry
  /\ fate' = [fate EXCEPT ![r] = how]
  /\ UNCHANGED <<confirmed, mails, budget>>

Next ==
  \E r \in Requests :
    \/ Confirm(r) \/ Owe(r) \/ Repeat(r) \/ Mail(r)
    \/ \E how \in {"done", "given_up"} : Settle(r, how)

Spec == Init /\ [][Next]_vars
=============================================================================
