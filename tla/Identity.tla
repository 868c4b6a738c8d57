------------------------------ MODULE Identity ------------------------------
(***************************************************************************)
(* What signing in promises, with no code, flag, cookie, failing call or   *)
(* racing request in sight: a user is made once for an address, and only   *)
(* when something has vouched for the address; a session is opened for a   *)
(* user that is in the table, whose address was vouched for, and remembers *)
(* a role that the user has or had; it is never opened twice.  Users stay, *)
(* and the role of one is only ever raised.  Who opens the session is not  *)
(* part of the promise.                                                    *)
(***************************************************************************)
CONSTANTS
  Emails,
  Names, \* names for users and for sessions
  None   \* no address, no session

VARIABLES
  vouched, \* addresses whose mail was read, or that Google named
  account, \* account[id]: the address of user id, or None
  role,    \* role[id]: "user" or "host"
  session  \* session[s]: the user [id, role] of session s, or None

vars == <<vouched, account, role, session>>

Init ==
  /\ vouched = {}
  /\ account = [id \in Names |-> None]
  /\ role = [id \in Names |-> "user"]
  /\ session = [s \in Names |-> None]

\* The code mailed to an address comes back, or Google names the address.
Vouch(e) ==
  /\ vouched' = vouched \cup {e}
  /\ UNCHANGED <<account, role, session>>

Register(id, e) ==
  /\ e \in vouched
  /\ account[id] = None
  /\ \A other \in Names : account[other] # e
  /\ account' = [account EXCEPT ![id] = e]
  /\ UNCHANGED <<vouched, role, session>>

\* Roles rise, so a role the user had is one not above the role he has.
SignIn(s, id, held) ==
  /\ session[s] = None
  /\ account[id] \in vouched
  /\ held = "host" => role[id] = "host"
  /\ session' = [session EXCEPT ![s] = [id |-> id, role |-> held]]
  /\ UNCHANGED <<vouched, account, role>>

SignOut(s) ==
  /\ session[s] # None
  /\ session' = [session EXCEPT ![s] = None]
  /\ UNCHANGED <<vouched, account, role>>

MakeHost(id) ==
  /\ account[id] # None
  /\ role' = [role EXCEPT ![id] = "host"]
  /\ UNCHANGED <<vouched, account, session>>

Next ==
  \/ \E e \in Emails : Vouch(e)
  \/ \E id \in Names :
       \/ MakeHost(id) \/ SignOut(id)
       \/ \E e \in Emails : Register(id, e)
       \/ \E s \in Names, held \in {"user", "host"} : SignIn(s, id, held)

Spec == Init /\ [][Next]_vars
=============================================================================
