------------------------------ MODULE Accounts ------------------------------
(***************************************************************************)
(* Signing in to Stayz: UserService and the middleware in auth.go, run by  *)
(* concurrent HTTP requests over the users table and three kinds of Redis  *)
(* keys - the one-time code under the bare e-mail address, the flag        *)
(* "is_verified:" and the sessions.  One step is one call to a store, to   *)
(* the mail server or to Google.                                           *)
(*                                                                         *)
(* A code, a users row and a session are named by the request that made    *)
(* them: ids and session ids are fresh random values.  The code itself is  *)
(* drawn from Codes and may be drawn twice.                                *)
(***************************************************************************)
EXTENDS Naturals

CONSTANTS
  Emails,    \* addresses
  Codes,     \* the numbers rand.Int may draw
  SixDigits, \* those that fmt prints with six digits, the others have fewer
  Requests,  \* HTTP requests, each served once
  None

\* user_role, and what a request reads of a user.
Roles == {"user", "host"}
People == [id : Requests, role : Roles]

ASSUME CodesAssumption == SixDigits \subseteq Codes
ASSUME NoneAssumption == None \notin Emails \cup Requests \cup People
ASSUME KeysAssumption == Emails \cap Requests = {}

VARIABLES
  otp,     \* Redis: otp[e] is the SendOTP request whose code is stored, or None
  flags,   \* Redis: the x for which "is_verified:x" exists
  session, \* Redis: session[r] is the data stored under the id r made, or None
  account, \* users: the e-mail of the row r inserted, or None
  role,    \* users: the role of that row
  pc,      \* the call each request makes next, or the reply it got
  op,      \* which endpoint it called
  email,   \* the address in its payload or in Google's claims
  code,    \* the code a send drew, or the guess of a verification
  found,   \* the user it has read: a record [id, role], or None
  cookie,  \* the session id an authenticated request carries
  took,    \* history: the send whose code a verification took, or None
  proved,  \* history: addresses whose mailed code came back in a verification
  named    \* history: addresses that a token of Google named

vars == <<otp, flags, session, account, role,
          pc, op, email, code, found, cookie, took, proved, named>>

request == <<op, email, cookie>>
redis == <<otp, flags, session>>
users == <<account, role>>
history == <<took, proved, named>>

Operations ==
  {"send", "verify", "register", "login", "google", "role", "me", "list"}
Active == {"mail", "store", "take", "flag", "exists", "check", "lookup",
           "insert", "session", "exchange", "auth", "role", "profile"}
Replies == {"sent", "verified", "invalid", "signed_in", "unverified",
            "unauthorized", "role_updated", "profile_shown", "forbidden",
            "listing", "failed"}

TypeOK ==
  /\ otp \in [Emails -> Requests \cup {None}]
  /\ flags \subseteq Emails \cup Requests
  /\ session \in [Requests -> People \cup {None}]
  /\ account \in [Requests -> Emails \cup {None}]
  /\ role \in [Requests -> Roles]
  /\ pc \in [Requests -> Active \cup Replies \cup {"idle", "crashed"}]
  /\ op \in [Requests -> Operations \cup {None}]
  /\ email \in [Requests -> Emails \cup {None}]
  /\ code \in [Requests -> Codes \cup {None}]
  /\ found \in [Requests -> People \cup {None}]
  /\ cookie \in [Requests -> Requests \cup {None}]
  /\ took \in [Requests -> Requests \cup {None}]
  /\ proved \subseteq Emails
  /\ named \subseteq Emails

Init ==
  /\ otp = [e \in Emails |-> None]
  /\ flags = {}
  /\ session = [r \in Requests |-> None]
  /\ account = [r \in Requests |-> None]
  /\ role = [r \in Requests |-> "user"]
  /\ pc = [r \in Requests |-> "idle"]
  /\ op = [r \in Requests |-> None]
  /\ email = [r \in Requests |-> None]
  /\ code = [r \in Requests |-> None]
  /\ found = [r \in Requests |-> None]
  /\ cookie = [r \in Requests |-> None]
  /\ took = [r \in Requests |-> None]
  /\ proved = {}
  /\ named = {}

Goto(r, where) == pc' = [pc EXCEPT ![r] = where]

-----------------------------------------------------------------------------
(* Requests arrive *)

\* A request for an address: where it starts depends on its endpoint.
Start == [send |-> "mail", register |-> "check", login |-> "check",
          google |-> "exchange"]

EmailArrives(r, o, e) ==
  /\ pc[r] = "idle"
  /\ op' = [op EXCEPT ![r] = o]
  /\ email' = [email EXCEPT ![r] = e]
  /\ Goto(r, Start[o])
  /\ UNCHANGED <<redis, users, code, found, cookie, history>>

VerifyArrives(r, e, guess) ==
  /\ pc[r] = "idle"
  /\ op' = [op EXCEPT ![r] = "verify"]
  /\ email' = [email EXCEPT ![r] = e]
  /\ code' = [code EXCEPT ![r] = guess]
  /\ Goto(r, "take")
  /\ UNCHANGED <<redis, users, found, cookie, history>>

\* The cookies clients have: the session ids of earlier replies, and none.
Cookies == {s \in Requests : pc[s] \in {"signed_in", "role_updated"}} \cup {None}

ApiArrives(r, o, s) ==
  /\ pc[r] = "idle"
  /\ s \in Cookies
  /\ op' = [op EXCEPT ![r] = o]
  /\ cookie' = [cookie EXCEPT ![r] = s]
  /\ Goto(r, "auth")
  /\ UNCHANGED <<redis, users, email, code, found, history>>

-----------------------------------------------------------------------------
(* SendOTP and VerifyOTP *)

\* Mutant: the task handler does not look at the length of the code.
MailAnyOTP(r) ==
  /\ pc[r] = "mail"
  /\ \E c \in Codes :
       /\ code' = [code EXCEPT ![r] = c]
       /\ Goto(r, "store")
  /\ UNCHANGED <<redis, users, request, found, history>>

\* The code is drawn and mailed; HandleSendOTP turns down a number that prints
\* with fewer than six digits, and the mail server may fail.
MailOTP(r) ==
  /\ pc[r] = "mail"
  /\ \E c \in Codes :
       /\ code' = [code EXCEPT ![r] = c]
       /\ \/ c \in SixDigits /\ Goto(r, "store")
          \/ Goto(r, "failed")
  /\ UNCHANGED <<redis, users, request, found, history>>

\* SET email otp EX 300.
StoreOTP(r) ==
  /\ pc[r] = "store"
  /\ otp' = [otp EXCEPT ![email[r]] = r]
  /\ Goto(r, "sent")
  /\ UNCHANGED <<flags, session, users, request, code, found, history>>

StoreOTPErrs(r) ==
  /\ pc[r] = "store"
  /\ \/ UNCHANGED otp
     \/ otp' = [otp EXCEPT ![email[r]] = r]
  /\ Goto(r, "failed")
  /\ UNCHANGED <<flags, session, users, request, code, found, history>>

\* Mutant: GET where the code has GETDEL.
TakeOTPAndKeep(r) ==
  /\ pc[r] = "take"
  /\ took' = [took EXCEPT ![r] = otp[email[r]]]
  /\ IF otp[email[r]] # None /\ code[otp[email[r]]] = code[r]
     THEN Goto(r, "flag") /\ proved' = proved \cup {email[r]}
     ELSE Goto(r, "invalid") /\ UNCHANGED proved
  /\ UNCHANGED <<redis, users, request, code, found, named>>

\* GETDEL takes the stored code, if any, whatever the guess is worth.
TakeOTP(r) ==
  /\ pc[r] = "take"
  /\ took' = [took EXCEPT ![r] = otp[email[r]]]
  /\ otp' = [otp EXCEPT ![email[r]] = None]
  /\ IF otp[email[r]] # None /\ code[otp[email[r]]] = code[r]
     THEN Goto(r, "flag") /\ proved' = proved \cup {email[r]}
     ELSE Goto(r, "invalid") /\ UNCHANGED proved
  /\ UNCHANGED <<flags, session, users, request, code, found, named>>

\* GETDEL comes back with an error, whether or not the code is gone.
TakeOTPErrs(r) ==
  /\ pc[r] = "take"
  /\ \/ UNCHANGED otp
     \/ otp' = [otp EXCEPT ![email[r]] = None]
  /\ Goto(r, "failed")
  /\ UNCHANGED <<flags, session, users, request, code, found, history>>

\* SET is_verified:email EX 300.
SetFlag(r) ==
  /\ pc[r] = "flag"
  /\ flags' = flags \cup {email[r]}
  /\ Goto(r, "exists")
  /\ UNCHANGED <<otp, session, users, request, code, found, history>>

SetFlagErrs(r) ==
  /\ pc[r] = "flag"
  /\ flags' \in {flags, flags \cup {email[r]}}
  /\ Goto(r, "failed")
  /\ UNCHANGED <<otp, session, users, request, code, found, history>>

\* GetUserByEmail only decides what the reply says.
SeeUser(r) ==
  /\ pc[r] = "exists"
  /\ \/ Goto(r, "verified")
     \/ Goto(r, "failed")
  /\ UNCHANGED <<redis, users, request, code, found, history>>

-----------------------------------------------------------------------------
(* Register, Login and LoginWithGoogle *)

\* Mutant: whether the flag is there is not asked.
CheckNoFlag(r) ==
  /\ pc[r] = "check"
  /\ Goto(r, "lookup")
  /\ UNCHANGED <<redis, users, request, code, found, history>>

\* Register and Login ask for the flag of the address, which stays; nothing
\* ties it to the client whose code set it.
CheckFlag(r) ==
  /\ pc[r] = "check"
  /\ \/ Goto(r, IF email[r] \in flags THEN "lookup" ELSE "unverified")
     \/ Goto(r, "failed")
  /\ UNCHANGED <<redis, users, request, code, found, history>>

\* Google exchanges the authorization code for a token that names the address,
\* or one of the calls fails.  Its email_verified is copied to a new row and
\* decides nothing.
Exchange(r) ==
  /\ pc[r] = "exchange"
  /\ \/ Goto(r, "lookup") /\ named' = named \cup {email[r]}
     \/ Goto(r, "failed") /\ UNCHANGED named
  /\ UNCHANGED <<redis, users, request, code, found, took, proved>>

\* The users row of an address.
Owner(a) == {id \in Requests : account[id] = a}

\* GetUserByEmail.  Login compares the error with pgx.ErrNoRows, which the
\* repository has replaced by ErrUserNotFound: an internal error.
Lookup(r) ==
  /\ pc[r] = "lookup"
  /\ IF Owner(email[r]) = {}
     THEN /\ Goto(r, IF op[r] = "login" THEN "failed" ELSE "insert")
          /\ UNCHANGED found
     ELSE /\ \E id \in Owner(email[r]) :
               found' = [found EXCEPT ![r] = [id |-> id, role |-> role[id]]]
          /\ Goto(r, "session")
  /\ UNCHANGED <<redis, users, request, code, history>>

LookupErrs(r) ==
  /\ pc[r] = "lookup"
  /\ Goto(r, "failed")
  /\ UNCHANGED <<redis, users, request, code, found, history>>

\* Mutant: the address is not UNIQUE.
InsertUserAgain(r) ==
  /\ pc[r] = "insert"
  /\ account' = [account EXCEPT ![r] = email[r]]
  /\ found' = [found EXCEPT ![r] = [id |-> r, role |-> role[r]]]
  /\ Goto(r, "session")
  /\ UNCHANGED <<redis, role, request, code, history>>

\* INSERT INTO users; the UNIQUE address turns a second row down, and the
\* duplicate error is an internal error by the time the client sees it.
InsertUser(r) ==
  /\ pc[r] = "insert"
  /\ IF Owner(email[r]) = {}
     THEN /\ account' = [account EXCEPT ![r] = email[r]]
          /\ found' = [found EXCEPT ![r] = [id |-> r, role |-> role[r]]]
          /\ Goto(r, "session")
     ELSE /\ Goto(r, "failed")
          /\ UNCHANGED <<account, found>>
  /\ UNCHANGED <<redis, role, request, code, history>>

\* The INSERT comes back with an error, whether or not it was committed.
InsertUserErrs(r) ==
  /\ pc[r] = "insert"
  /\ \/ UNCHANGED account
     \/ /\ Owner(email[r]) = {}
        /\ account' = [account EXCEPT ![r] = email[r]]
  /\ Goto(r, "failed")
  /\ UNCHANGED <<redis, role, request, code, found, history>>

\* CreateSession stores the user read before; the reply sets the cookie.
NewSession(r) ==
  /\ pc[r] = "session"
  /\ session' = [session EXCEPT ![r] = found[r]]
  /\ Goto(r, "signed_in")
  /\ UNCHANGED <<otp, flags, users, request, code, found, history>>

NewSessionErrs(r) ==
  /\ pc[r] = "session"
  /\ \/ UNCHANGED session
     \/ session' = [session EXCEPT ![r] = found[r]]
  /\ Goto(r, "failed")
  /\ UNCHANGED <<otp, flags, users, request, code, found, history>>

-----------------------------------------------------------------------------
(* RequireAuth, RequireRole, UpdateRole and GetCurrentUser *)

\* Mutant: whoever is signed in may list a property.
RequireNoRole(user) == TRUE

\* RequireRole("host"), in front of CreateProperty, asks the session.
RequireRole(user) == user.role = "host"

\* Where the routes send an authenticated request; Listing has the rest of
\* CreateProperty.
Behind(o, user) ==
  [role |-> "role", me |-> "profile",
   list |-> IF RequireRole(user) THEN "listing" ELSE "forbidden"][o]

\* The middleware reads the session of the cookie, once.
RequireAuth(r) ==
  /\ pc[r] = "auth"
  /\ IF cookie[r] # None /\ session[cookie[r]] # None
     THEN /\ found' = [found EXCEPT ![r] = session[cookie[r]]]
          /\ Goto(r, Behind(op[r], session[cookie[r]]))
     ELSE /\ Goto(r, "unauthorized")
          /\ UNCHANGED found
  /\ UNCHANGED <<redis, users, request, code, history>>

RequireAuthErrs(r) ==
  /\ pc[r] = "auth"
  /\ Goto(r, "failed")
  /\ UNCHANGED <<redis, users, request, code, found, history>>

\* The key UpdateRole asks for has the user's id in it, not the address.
RoleAllowed(r) == found[r].id \in flags

\* Without the flag the service returns the text "errs.ErrEmailNotVerified" and
\* no error: the handler sets it as the session cookie and reports success.
\* The other branch is one step here, since no step of the code ever sets the
\* flag it needs.
UpdateRole(r) ==
  /\ pc[r] = "role"
  /\ IF RoleAllowed(r)
     THEN /\ role' = [role EXCEPT ![found[r].id] = "host"]
          /\ session' = [session EXCEPT
                           ![r] = [id |-> found[r].id, role |-> "host"]]
     ELSE UNCHANGED <<role, session>>
  /\ Goto(r, "role_updated")
  /\ UNCHANGED <<otp, flags, account, request, code, found, history>>

UpdateRoleErrs(r) ==
  /\ pc[r] = "role"
  /\ Goto(r, "failed")
  /\ UNCHANGED <<redis, users, request, code, found, history>>

\* GetUserByID.
GetCurrentUser(r) ==
  /\ pc[r] = "profile"
  /\ \/ account[found[r].id] # None /\ Goto(r, "profile_shown")
     \/ Goto(r, "failed")
  /\ UNCHANGED <<redis, users, request, code, found, history>>

-----------------------------------------------------------------------------
(* The environment *)

\* The five minutes of a code or of a flag, or the hour of a session, are over.
CodeExpires(e) ==
  /\ otp[e] # None
  /\ otp' = [otp EXCEPT ![e] = None]
  /\ UNCHANGED <<flags, session, users, pc, request, code, found, history>>

FlagExpires(x) ==
  /\ x \in flags
  /\ flags' = flags \ {x}
  /\ UNCHANGED <<otp, session, users, pc, request, code, found, history>>

SessionExpires(s) ==
  /\ session[s] # None
  /\ session' = [session EXCEPT ![s] = None]
  /\ UNCHANGED <<otp, flags, users, pc, request, code, found, history>>

\* An operator makes a user a host in the table: there is no other way, as
\* UpdateRole shows.  No statement of the code takes the role away.
MadeHost(id) ==
  /\ account[id] # None
  /\ role' = [role EXCEPT ![id] = "host"]
  /\ UNCHANGED <<redis, account, pc, request, code, found, history>>

\* The process that serves r dies.
Crash(r) ==
  /\ pc[r] \in Active
  /\ Goto(r, "crashed")
  /\ UNCHANGED <<redis, users, request, code, found, history>>

Arrives(r) ==
  \/ \E e \in Emails :
       \/ \E o \in DOMAIN Start : EmailArrives(r, o, e)
       \/ \E guess \in Codes : VerifyArrives(r, e, guess)
  \/ \E o \in {"role", "me", "list"}, s \in Requests \cup {None} : ApiArrives(r, o, s)

Step(r) ==
  \/ MailOTP(r) \/ StoreOTP(r) \/ StoreOTPErrs(r)
  \/ TakeOTP(r) \/ TakeOTPErrs(r) \/ SetFlag(r) \/ SetFlagErrs(r) \/ SeeUser(r)
  \/ CheckFlag(r) \/ Exchange(r) \/ Lookup(r) \/ LookupErrs(r)
  \/ InsertUser(r) \/ InsertUserErrs(r) \/ NewSession(r) \/ NewSessionErrs(r)
  \/ RequireAuth(r) \/ RequireAuthErrs(r)
  \/ UpdateRole(r) \/ UpdateRoleErrs(r) \/ GetCurrentUser(r)

Next ==
  \/ \E r \in Requests : Arrives(r) \/ Step(r) \/ Crash(r)
  \/ \E e \in Emails : CodeExpires(e)
  \/ \E x \in Emails : FlagExpires(x)
  \/ \E s \in Requests : SessionExpires(s) \/ MadeHost(s)

Spec == Init /\ [][Next]_vars

-----------------------------------------------------------------------------
(* Properties *)

\* A code is good for one guess, right or wrong: GETDEL gives it to one of the
\* verifications that race for it, and it is a six-digit code that was mailed
\* to the address being verified.
OneGuessPerCode ==
  \A q, r \in Requests : took[r] # None =>
    /\ took[q] = took[r] => q = r
    /\ email[took[r]] = email[r]
    /\ code[took[r]] \in SixDigits

\* However registrations and Google sign-ins race between GetUserByEmail and
\* the INSERT, an address has one users row.
OneUserPerEmail ==
  \A q, r \in Requests : account[r] # None /\ account[q] = account[r] => q = r

\* What the endpoint of r goes by: a token of Google, or a code that came back.
Evidence(r) == IF op[r] = "google" THEN named ELSE proved

\* A session is about the user of the address that its own request gave, even
\* if another request inserted the row meanwhile, and there was the evidence
\* its endpoint goes by: for Register and Login some verification had received
\* the code mailed to that address, for Google a token had named it.  Not that
\* the client of the session did so: the flag is bound to the address only, and
\* the token may name one that Google has not verified.
SessionsEarned ==
  \A s \in Requests : session[s] # None /\ op[s] # "role" =>
    /\ account[session[s].id] = email[s]
    /\ email[s] \in Evidence(s)

\* Only hosts list properties, though RequireRole asks a session that may be an
\* hour old, made from a row read earlier still: what they hold is at worst out
\* of date the other way, and turns away a user who has become a host.
HostsList ==
  \A r \in Requests : pc[r] = "listing" =>
    role[found[r].id] = "host" /\ account[found[r].id] # None

\* Codes, flags, sessions made from users read before, racing inserts, expiry
\* and failures come to no more than module Identity: its users and sessions
\* are made one by one, each for an address somebody vouched for.  In
\* particular UpdateRole, which could do two of its steps at once, does none.
Id == INSTANCE Identity WITH Names <- Requests, vouched <- proved \cup named

ImplementsIdentity == Id!Spec

-----------------------------------------------------------------------------
(* The inductive invariant *)

\* What a request has by the time it makes a call.
Prepared(r) ==
  /\ pc[r] \in {"mail", "store", "sent", "take", "flag", "check", "exchange",
                "lookup", "insert", "session"} => email[r] \in Emails
  /\ pc[r] = "flag" => email[r] \in proved
  /\ pc[r] = "check" => op[r] \in {"register", "login"}
  /\ pc[r] = "exchange" => op[r] = "google"
  /\ pc[r] \in {"lookup", "insert", "session"} => email[r] \in Evidence(r)
  /\ pc[r] \in {"idle", "check", "exchange", "lookup", "insert"} => account[r] = None
  /\ pc[r] \in {"idle", "take"} => took[r] = None
  /\ pc[r] \in Active \cup {"idle"} => session[r] = None
  /\ pc[r] = "store" => code[r] \in SixDigits
  /\ pc[r] = "role" => op[r] = "role" /\ found[r] # None
  /\ pc[r] = "auth" => op[r] \in {"role", "me", "list"}
  /\ pc[r] = "session" => found[r] # None /\ account[found[r].id] = email[r]

Arguments == \A r \in Requests : Prepared(r)

\* A stored code was mailed to the address it is stored under, by a request
\* that makes no more calls, and nobody has taken it; a flag is only set for an
\* address whose code came back.
Stored ==
  /\ flags \subseteq proved
  /\ \A e \in Emails : otp[e] # None =>
       /\ email[otp[e]] = e
       /\ code[otp[e]] \in SixDigits
       /\ pc[otp[e]] \in {"sent", "failed"}
  /\ \A r \in Requests : took[r] # None =>
       /\ pc[took[r]] \in {"sent", "failed"}
       /\ \A e \in Emails : otp[e] # took[r]

\* What requests and sessions know of a user: the row is there, and the role
\* they remember is not above the one in it.
Known(user) ==
  /\ account[user.id] # None
  /\ user.role = "host" => role[user.id] = "host"

Remembered ==
  \A r \in Requests :
    /\ found[r] # None => Known(found[r])
    /\ session[r] # None => Known(session[r])
    /\ pc[r] = "listing" => found[r] # None /\ found[r].role = "host"

IInv ==
  /\ TypeOK
  /\ Remembered
  /\ Arguments
  /\ Stored
  /\ OneGuessPerCode
  /\ OneUserPerEmail
  /\ SessionsEarned

-----------------------------------------------------------------------------
(* What the program says, and does not do *)

\* The reply of UpdateRole is "user role updated successfully"
\* (user/handler.go).  The user is a host after it.
RoleIsUpdated ==
  \A r \in Requests : pc[r] = "role_updated" => role[found[r].id] = "host"
=============================================================================
