--------------------------- MODULE AccountsProofs ---------------------------
(***************************************************************************)
(* Proofs about Accounts for any addresses, codes and number of requests.  *)
(***************************************************************************)
EXTENDS Accounts, TLAPS

\* The first state satisfies the inductive invariant.
LEMMA InitInv == Init => IInv
BY DEF Init, IInv, TypeOK, Arguments, Prepared, Stored, OneGuessPerCode, OneUserPerEmail,
       SessionsEarned, Remembered, Roles

\* IInv without what is remembered of roles.
Core ==
  TypeOK /\ Arguments /\ Stored /\ OneGuessPerCode /\ OneUserPerEmail /\ SessionsEarned

\* Every step keeps it.
LEMMA CoreStep == Core /\ [Next]_vars => Core'
<1> SUFFICES ASSUME Core, [Next]_vars PROVE Core'
  OBVIOUS
<1> USE NoneAssumption, CodesAssumption, KeysAssumption
    DEF Core, TypeOK, Arguments, Prepared, Stored, OneGuessPerCode, OneUserPerEmail,
        SessionsEarned, Evidence, Roles, People, Operations, Active, Replies,
        Goto, request, redis, users, history
<1>1. ASSUME NEW r \in Requests, NEW o \in DOMAIN Start, NEW e \in Emails,
             EmailArrives(r, o, e)
      PROVE Core'
  BY <1>1 DEF EmailArrives, Start
<1>2. ASSUME NEW r \in Requests, NEW e \in Emails, NEW guess \in Codes,
             VerifyArrives(r, e, guess)
      PROVE Core'
  BY <1>2 DEF VerifyArrives
<1>3. ASSUME NEW r \in Requests, NEW o \in {"role", "me", "list"},
             NEW s \in Requests \cup {None}, ApiArrives(r, o, s)
      PROVE Core'
  BY <1>3 DEF ApiArrives
<1>4. ASSUME NEW r \in Requests, MailOTP(r) PROVE Core'
  <2>1. TypeOK'
    BY <1>4 DEF MailOTP
  <2>2. Arguments'
    BY <1>4 DEF MailOTP
  <2>3. Stored'
    BY <1>4 DEF MailOTP
  <2>4. OneGuessPerCode'
    BY <1>4 DEF MailOTP
  <2>5. OneUserPerEmail'
    BY <1>4 DEF MailOTP
  <2>6. SessionsEarned'
    BY <1>4 DEF MailOTP
  <2>7. QED
    BY <2>1, <2>2, <2>3, <2>4, <2>5, <2>6
<1>5. ASSUME NEW r \in Requests, StoreOTP(r) PROVE Core'
  BY <1>5 DEF StoreOTP
<1>6. ASSUME NEW r \in Requests, StoreOTPErrs(r) PROVE Core'
  <2>1. TypeOK'
    BY <1>6 DEF StoreOTPErrs
  <2>2. Arguments'
    BY <1>6 DEF StoreOTPErrs
  <2>3. Stored'
    BY <1>6 DEF StoreOTPErrs
  <2>4. OneGuessPerCode'
    BY <1>6 DEF StoreOTPErrs
  <2>5. OneUserPerEmail'
    BY <1>6 DEF StoreOTPErrs
  <2>6. SessionsEarned'
    BY <1>6 DEF StoreOTPErrs
  <2>7. QED
    BY <2>1, <2>2, <2>3, <2>4, <2>5, <2>6
<1>7. ASSUME NEW r \in Requests, TakeOTP(r) PROVE Core'
  <2>1. TypeOK'
    <3>1. /\ email[r] \in Emails
          /\ otp' = [otp EXCEPT ![email[r]] = None]
          /\ took' = [took EXCEPT ![r] = otp[email[r]]]
          /\ UNCHANGED <<flags, session, users, request, code, found, named>>
      BY <1>7 DEF TakeOTP
    <3>2. /\ pc' \in {[pc EXCEPT ![r] = "flag"], [pc EXCEPT ![r] = "invalid"]}
          /\ proved' \in {proved, proved \cup {email[r]}}
      BY <1>7 DEF TakeOTP
    <3>3. pc' \in [Requests -> Active \cup Replies \cup {"idle", "crashed"}]
      BY <3>2
    <3>4. proved' \subseteq Emails
      BY <3>1, <3>2
    <3>5. otp' \in [Emails -> Requests \cup {None}]
      BY <3>1
    <3>6. took' \in [Requests -> Requests \cup {None}]
      BY <3>1
    <3>7. QED
      BY <3>1, <3>3, <3>4, <3>5, <3>6
  <2>2. Arguments'
    BY <1>7 DEF TakeOTP
  <2>3. Stored'
    <3>1. flags' \subseteq proved'
      BY <1>7 DEF TakeOTP
    <3>2. ASSUME NEW e \in Emails, otp'[e] # None
          PROVE /\ email'[otp'[e]] = e
                /\ code'[otp'[e]] \in SixDigits
                /\ pc'[otp'[e]] \in {"sent", "failed"}
      BY <1>7, <3>2 DEF TakeOTP
    <3>3. ASSUME NEW q \in Requests, took'[q] # None
          PROVE /\ pc'[took'[q]] \in {"sent", "failed"}
                /\ \A e \in Emails : otp'[e] # took'[q]
      BY <1>7, <3>3 DEF TakeOTP
    <3>4. QED
      BY <3>1, <3>2, <3>3
  <2>4. OneGuessPerCode'
    BY <1>7 DEF TakeOTP
  <2>5. OneUserPerEmail'
    BY <1>7 DEF TakeOTP
  <2>6. SessionsEarned'
    BY <1>7 DEF TakeOTP
  <2>7. QED
    BY <2>1, <2>2, <2>3, <2>4, <2>5, <2>6
<1>8. ASSUME NEW r \in Requests, TakeOTPErrs(r) PROVE Core'
  <2>1. TypeOK'
    BY <1>8 DEF TakeOTPErrs
  <2>2. Arguments'
    BY <1>8 DEF TakeOTPErrs
  <2>3. Stored'
    BY <1>8 DEF TakeOTPErrs
  <2>4. OneGuessPerCode'
    BY <1>8 DEF TakeOTPErrs
  <2>5. OneUserPerEmail'
    BY <1>8 DEF TakeOTPErrs
  <2>6. SessionsEarned'
    BY <1>8 DEF TakeOTPErrs
  <2>7. QED
    BY <2>1, <2>2, <2>3, <2>4, <2>5, <2>6
<1>9. ASSUME NEW r \in Requests, SetFlag(r) PROVE Core'
  BY <1>9 DEF SetFlag
<1>10. ASSUME NEW r \in Requests, SetFlagErrs(r) PROVE Core'
  <2>1. TypeOK'
    BY <1>10 DEF SetFlagErrs
  <2>2. Arguments'
    BY <1>10 DEF SetFlagErrs
  <2>3. Stored'
    BY <1>10 DEF SetFlagErrs
  <2>4. OneGuessPerCode'
    BY <1>10 DEF SetFlagErrs
  <2>5. OneUserPerEmail'
    BY <1>10 DEF SetFlagErrs
  <2>6. SessionsEarned'
    BY <1>10 DEF SetFlagErrs
  <2>7. QED
    BY <2>1, <2>2, <2>3, <2>4, <2>5, <2>6
<1>11. ASSUME NEW r \in Requests, SeeUser(r) PROVE Core'
  <2>1. TypeOK'
    BY <1>11 DEF SeeUser
  <2>2. Arguments'
    BY <1>11 DEF SeeUser
  <2>3. Stored'
    BY <1>11 DEF SeeUser
  <2>4. OneGuessPerCode'
    BY <1>11 DEF SeeUser
  <2>5. OneUserPerEmail'
    BY <1>11 DEF SeeUser
  <2>6. SessionsEarned'
    BY <1>11 DEF SeeUser
  <2>7. QED
    BY <2>1, <2>2, <2>3, <2>4, <2>5, <2>6
<1>12. ASSUME NEW r \in Requests, CheckFlag(r) PROVE Core'
  <2>1. /\ pc[r] = "check"
        /\ UNCHANGED <<redis, users, request, code, found, history>>
    BY <1>12 DEF CheckFlag
  <2>2. CASE email[r] \in flags /\ pc' = [pc EXCEPT ![r] = "lookup"]
    BY <2>1, <2>2
  <2>3. CASE pc' = [pc EXCEPT ![r] = "unverified"]
    BY <2>1, <2>3
  <2>4. CASE pc' = [pc EXCEPT ![r] = "failed"]
    BY <2>1, <2>4
  <2>5. QED
    BY <1>12, <2>2, <2>3, <2>4 DEF CheckFlag
<1>13. ASSUME NEW r \in Requests, Exchange(r) PROVE Core'
  <2>1. TypeOK'
    <3>1. email[r] \in Emails
      BY <1>13 DEF Exchange, Arguments, Prepared
    <3>2. /\ UNCHANGED <<redis, users, request, code, found, took, proved>>
          /\ named' \in {named, named \cup {email[r]}}
          /\ \/ pc' = [pc EXCEPT ![r] = "lookup"]
             \/ pc' = [pc EXCEPT ![r] = "failed"]
      BY <1>13 DEF Exchange
    <3>3. named' \subseteq Emails
      BY <3>1, <3>2
    <3>4. pc' \in [Requests -> Active \cup Replies \cup {"idle", "crashed"}]
      BY <3>2
    <3>5. QED
      BY <3>2, <3>3, <3>4
  <2>2. Arguments'
    BY <1>13 DEF Exchange
  <2>3. Stored'
    <3>1. /\ UNCHANGED <<flags, otp, email, code, took, proved>>
          /\ \A q \in Requests : pc[q] \in {"sent", "failed"} => pc'[q] = pc[q]
      BY <1>13 DEF Exchange
    <3>2. \A e \in Emails : otp[e] # None => otp[e] \in Requests
      BY DEF TypeOK
    <3>3. \A q \in Requests : took[q] # None => took[q] \in Requests
      BY DEF TypeOK
    <3>4. QED
      BY <3>1, <3>2, <3>3 DEF Stored
  <2>4. OneGuessPerCode'
    BY <1>13 DEF Exchange
  <2>5. OneUserPerEmail'
    BY <1>13 DEF Exchange
  <2>6. SessionsEarned'
    BY <1>13 DEF Exchange
  <2>7. QED
    BY <2>1, <2>2, <2>3, <2>4, <2>5, <2>6
<1>14. ASSUME NEW r \in Requests, Lookup(r) PROVE Core'
  <2>1. CASE Owner(email[r]) = {}
    <3>1. /\ pc[r] = "lookup"
          /\ UNCHANGED <<redis, users, request, code, found, history>>
      BY <1>14, <2>1 DEF Lookup
    <3>2. CASE pc' = [pc EXCEPT ![r] = "failed"]
      BY <3>1, <3>2
    <3>3. CASE pc' = [pc EXCEPT ![r] = "insert"]
      BY <3>1, <3>3, <2>1 DEF Owner
    <3>4. QED
      BY <1>14, <2>1, <3>2, <3>3 DEF Lookup
  <2>2. ASSUME NEW id \in Requests, account[id] = email[r],
               found' = [found EXCEPT ![r] = [id |-> id, role |-> role[id]]],
               Goto(r, "session")
        PROVE Core'
    <3>1. /\ pc[r] = "lookup"
          /\ UNCHANGED <<redis, users, request, code, history>>
      BY <1>14 DEF Lookup
    <3>2. QED
      <4>1. TypeOK'
        BY <2>2, <3>1
      <4>2. Arguments'
        <5>1. Prepared(r)'
          BY <2>2, <3>1
        <5>2. ASSUME NEW q \in Requests, q # r PROVE Prepared(q)'
          BY <2>2, <3>1, <5>2
        <5>3. QED
          BY <5>1, <5>2
      <4>3. Stored'
        BY <2>2, <3>1
      <4>4. OneGuessPerCode'
        BY <2>2, <3>1
      <4>5. OneUserPerEmail'
        BY <2>2, <3>1
      <4>6. SessionsEarned'
        BY <2>2, <3>1
      <4>7. QED
        BY <4>1, <4>2, <4>3, <4>4, <4>5, <4>6
  <2>3. QED
    BY <1>14, <2>1, <2>2 DEF Lookup, Owner
<1>15. ASSUME NEW r \in Requests, LookupErrs(r) PROVE Core'
  BY <1>15 DEF LookupErrs
<1>16. ASSUME NEW r \in Requests, InsertUser(r) PROVE Core'
  <2>1. CASE Owner(email[r]) = {}
    <3>1. /\ pc[r] = "insert"
          /\ account' = [account EXCEPT ![r] = email[r]]
          /\ found' = [found EXCEPT ![r] = [id |-> r, role |-> role[r]]]
          /\ Goto(r, "session")
          /\ UNCHANGED <<redis, role, request, code, history>>
      BY <1>16, <2>1 DEF InsertUser
    <3>2. \A q \in Requests : account[q] # email[r]
      BY <2>1 DEF Owner
    <3>3. QED
      <4>1. TypeOK'
        BY <3>1, <3>2
      <4>2. Arguments'
        <5>1. Prepared(r)'
          BY <3>1, <3>2
        <5>2. ASSUME NEW q \in Requests, q # r PROVE Prepared(q)'
          BY <3>1, <3>2, <5>2
        <5>3. QED
          BY <5>1, <5>2
      <4>3. Stored'
        BY <3>1, <3>2
      <4>4. OneGuessPerCode'
        BY <3>1, <3>2
      <4>5. OneUserPerEmail'
        BY <3>1, <3>2
      <4>6. SessionsEarned'
        BY <3>1, <3>2
      <4>7. QED
        BY <4>1, <4>2, <4>3, <4>4, <4>5, <4>6
  <2>2. CASE Owner(email[r]) # {}
    <3>1. /\ pc[r] = "insert"
          /\ pc' = [pc EXCEPT ![r] = "failed"]
          /\ UNCHANGED <<account, found, redis, role, request, code, history>>
      BY <1>16, <2>2 DEF InsertUser
    <3>2. QED
      BY <3>1
  <2>3. QED
    BY <2>1, <2>2
<1>17. ASSUME NEW r \in Requests, InsertUserErrs(r) PROVE Core'
  <2>1. /\ pc[r] = "insert" /\ email[r] \in Emails /\ account[r] = None
        /\ pc' = [pc EXCEPT ![r] = "failed"]
        /\ UNCHANGED <<redis, role, request, code, found, history>>
    BY <1>17 DEF InsertUserErrs
  <2>2. CASE UNCHANGED account
    BY <2>1, <2>2
  <2>3. CASE /\ account' = [account EXCEPT ![r] = email[r]]
             /\ \A q \in Requests : account[q] # email[r]
    <3>1. TypeOK'
      BY <2>1, <2>3
    <3>2. Arguments'
      <4>1. Prepared(r)'
        BY <2>1, <2>3
      <4>2. ASSUME NEW q \in Requests, q # r PROVE Prepared(q)'
        BY <2>1, <2>3, <4>2
      <4>3. QED
        BY <4>1, <4>2
    <3>3. Stored'
      BY <2>1, <2>3
    <3>4. OneGuessPerCode'
      BY <2>1, <2>3
    <3>5. OneUserPerEmail'
      BY <2>1, <2>3
    <3>6. SessionsEarned'
      BY <2>1, <2>3
    <3>7. QED
      BY <3>1, <3>2, <3>3, <3>4, <3>5, <3>6
  <2>4. QED
    BY <1>17, <2>2, <2>3 DEF InsertUserErrs, Owner
<1>18. ASSUME NEW r \in Requests, NewSession(r) PROVE Core'
  BY <1>18 DEF NewSession
<1>19. ASSUME NEW r \in Requests, NewSessionErrs(r) PROVE Core'
  <2>1. TypeOK'
    <3>1. /\ session' \in {session, [session EXCEPT ![r] = found[r]]}
          /\ pc' = [pc EXCEPT ![r] = "failed"]
          /\ UNCHANGED <<otp, flags, users, request, code, found, history>>
      BY <1>19 DEF NewSessionErrs
    <3>2. session' \in [Requests -> People \cup {None}]
      BY <3>1
    <3>3. QED
      BY <3>1, <3>2
  <2>2. Arguments'
    BY <1>19 DEF NewSessionErrs
  <2>3. Stored'
    BY <1>19 DEF NewSessionErrs
  <2>4. OneGuessPerCode'
    BY <1>19 DEF NewSessionErrs
  <2>5. OneUserPerEmail'
    BY <1>19 DEF NewSessionErrs
  <2>6. SessionsEarned'
    BY <1>19 DEF NewSessionErrs
  <2>7. QED
    BY <2>1, <2>2, <2>3, <2>4, <2>5, <2>6
<1>20. ASSUME NEW r \in Requests, RequireAuth(r) PROVE Core'
  <2>1. pc[r] = "auth" /\ UNCHANGED <<redis, users, request, code, history>>
    BY <1>20 DEF RequireAuth
  <2>2. CASE cookie[r] # None /\ session[cookie[r]] # None
    <3>1. found' = [found EXCEPT ![r] = session[cookie[r]]]
      BY <1>20, <2>2 DEF RequireAuth
    <3>2. CASE op[r] = "role" /\ pc' = [pc EXCEPT ![r] = "role"]
      BY <2>1, <2>2, <3>1, <3>2
    <3>3. ASSUME NEW there \in {"profile", "listing", "forbidden"},
                 pc' = [pc EXCEPT ![r] = there]
          PROVE  Core'
      BY <2>1, <2>2, <3>1, <3>3
    <3>4. \/ op[r] = "role" /\ pc' = [pc EXCEPT ![r] = "role"]
          \/ \E there \in {"profile", "listing", "forbidden"} :
               pc' = [pc EXCEPT ![r] = there]
      BY <1>20, <2>1, <2>2 DEF RequireAuth, Behind
    <3>5. QED
      BY <3>2, <3>3, <3>4
  <2>3. CASE ~(cookie[r] # None /\ session[cookie[r]] # None)
    <3>1. found' = found /\ pc' = [pc EXCEPT ![r] = "unauthorized"]
      BY <1>20, <2>3 DEF RequireAuth
    <3>2. QED
      BY <2>1, <3>1
  <2>4. QED
    BY <2>2, <2>3
<1>21. ASSUME NEW r \in Requests, RequireAuthErrs(r) PROVE Core'
  BY <1>21 DEF RequireAuthErrs
<1>22. ASSUME NEW r \in Requests, UpdateRole(r) PROVE Core'
  BY <1>22 DEF UpdateRole, RoleAllowed
<1>23. ASSUME NEW r \in Requests, UpdateRoleErrs(r) PROVE Core'
  BY <1>23 DEF UpdateRoleErrs
<1>24. ASSUME NEW r \in Requests, GetCurrentUser(r) PROVE Core'
  <2>1. TypeOK'
    BY <1>24 DEF GetCurrentUser
  <2>2. Arguments'
    BY <1>24 DEF GetCurrentUser
  <2>3. Stored'
    BY <1>24 DEF GetCurrentUser
  <2>4. OneGuessPerCode'
    BY <1>24 DEF GetCurrentUser
  <2>5. OneUserPerEmail'
    BY <1>24 DEF GetCurrentUser
  <2>6. SessionsEarned'
    BY <1>24 DEF GetCurrentUser
  <2>7. QED
    BY <2>1, <2>2, <2>3, <2>4, <2>5, <2>6
<1>25. ASSUME NEW r \in Requests, Crash(r) PROVE Core'
  BY <1>25 DEF Crash
<1>26. ASSUME NEW e \in Emails, CodeExpires(e) PROVE Core'
  BY <1>26 DEF CodeExpires
<1>27. ASSUME NEW x \in Emails, FlagExpires(x) PROVE Core'
  BY <1>27 DEF FlagExpires
<1>28. ASSUME NEW s \in Requests, SessionExpires(s) PROVE Core'
  BY <1>28 DEF SessionExpires
<1>29. CASE UNCHANGED vars
  BY <1>29 DEF vars
<1>30. ASSUME NEW s \in Requests, MadeHost(s) PROVE Core'
  BY <1>30 DEF MadeHost
<1> HIDE DEF Core, TypeOK, Arguments, Prepared, Stored, OneGuessPerCode, OneUserPerEmail,
        SessionsEarned, Evidence, Roles, People, Operations, Active, Replies,
        Goto, request, redis, users, history
<1>31. QED
  BY <1>1, <1>2, <1>3, <1>4, <1>5, <1>6, <1>7, <1>8, <1>9, <1>10, <1>11,
     <1>12, <1>13, <1>14, <1>15, <1>16, <1>17, <1>18, <1>19, <1>20, <1>21, <1>22,
     <1>23, <1>24, <1>25, <1>26, <1>27, <1>28, <1>29, <1>30
  DEF Next, Arrives, Step

\* A users row stays, and a host stays a host.
LEMMA RowsStay ==
  ASSUME Core, [Next]_vars, NEW id \in Requests
  PROVE  /\ account[id] # None => account'[id] # None
         /\ role[id] = "host" => role'[id] = "host"
<1> USE DEF users, Goto, Core
<1>1. ASSUME NEW r \in Requests, InsertUser(r) \/ InsertUserErrs(r)
      PROVE  account[id] # None => account'[id] # None
  BY <1>1, NoneAssumption DEF InsertUser, InsertUserErrs, TypeOK, Arguments, Prepared
<1>2. ASSUME NEW r \in Requests, InsertUser(r) \/ InsertUserErrs(r)
      PROVE  UNCHANGED role
  BY <1>2 DEF InsertUser, InsertUserErrs
<1>3. ASSUME NEW r \in Requests, UpdateRole(r)
      PROVE  role[id] = "host" => role'[id] = "host"
  BY <1>3 DEF UpdateRole, TypeOK
<1>4. ASSUME NEW s \in Requests, MadeHost(s)
      PROVE  role[id] = "host" => role'[id] = "host"
  BY <1>4 DEF MadeHost, TypeOK
<1>5. \/ UNCHANGED users
      \/ \E r \in Requests : InsertUser(r) \/ InsertUserErrs(r)
      \/ \E r \in Requests : UpdateRole(r) \/ MadeHost(r)
  BY DEF Next, vars, Arrives, Step, EmailArrives, VerifyArrives, ApiArrives, MailOTP,
         StoreOTP, StoreOTPErrs, TakeOTP, TakeOTPErrs, SetFlag, SetFlagErrs, SeeUser,
         CheckFlag, Exchange, Lookup, LookupErrs, NewSession, NewSessionErrs,
         RequireAuth, RequireAuthErrs, UpdateRoleErrs, GetCurrentUser, Crash,
         CodeExpires, FlagExpires, SessionExpires
<1>6. QED
  BY <1>1, <1>2, <1>3, <1>4, <1>5 DEF UpdateRole, MadeHost

\* A step by which nobody reads a user: sessions are made from what was found.
LEMMA NothingRead ==
  ASSUME Core, Remembered, [Next]_vars, UNCHANGED found,
         \A s \in Requests : session'[s] \in {session[s], found[s], None},
         \A r \in Requests : pc'[r] = "listing" => pc[r] = "listing"
  PROVE  Remembered'
<1>1. ASSUME NEW user \in People, Known(user)
      PROVE  account'[user.id] # None /\ (user.role = "host" => role'[user.id] = "host")
  BY <1>1, RowsStay DEF People, Known
<1>2. \A r \in Requests :
        /\ found'[r] # None => found'[r] \in People /\ Known(found'[r])
        /\ session'[r] # None => session'[r] \in People /\ Known(session'[r])
  BY DEF Core, TypeOK, Remembered
<1>3. QED
  BY <1>1, <1>2 DEF Remembered, Known

\* Every step keeps what is remembered true.
LEMMA RememberedStep == Core /\ Remembered /\ [Next]_vars => Remembered'
<1> SUFFICES ASSUME Core, Remembered, [Next]_vars PROVE Remembered'
  OBVIOUS
<1> USE DEF Goto, request, redis, users, history
<1>1. ASSUME NEW r \in Requests, Lookup(r) \/ InsertUser(r) \/ RequireAuth(r)
      PROVE  Remembered'
  <2>1. UNCHANGED session
    BY <1>1 DEF Lookup, InsertUser, RequireAuth
  <2>2. \A s \in Requests : session[s] # None => Known(session[s])'
    BY <2>1, RowsStay, NoneAssumption DEF Core, TypeOK, People, Remembered, Known
  <2>3. \A q \in Requests : q # r /\ found[q] # None => Known(found[q])'
    BY <1>1, RowsStay, NoneAssumption
       DEF Lookup, InsertUser, RequireAuth, Core, TypeOK, People, Remembered, Known
  <2>4. \A q \in Requests : q # r => found'[q] = found[q] /\ pc'[q] = pc[q]
    BY <1>1 DEF Lookup, InsertUser, RequireAuth, Core, TypeOK
  <2>5. found'[r] # None => Known(found[r])'
    <3>1. CASE found' = found
      BY <3>1, RowsStay, NoneAssumption DEF Core, TypeOK, People, Remembered, Known
    <3>2. CASE Lookup(r) /\ found' # found
      BY <3>2, NoneAssumption
         DEF Lookup, Owner, Known, Core, TypeOK, People, Arguments, Prepared
    <3>3. CASE InsertUser(r) /\ found' # found
      BY <3>3, NoneAssumption
         DEF InsertUser, Known, Core, TypeOK, People, Arguments, Prepared
    <3>4. CASE RequireAuth(r) /\ found' # found
      BY <3>4 DEF RequireAuth, Known, Remembered, Core, TypeOK
    <3>5. QED
      BY <1>1, <3>1, <3>2, <3>3, <3>4
  <2>6. pc'[r] = "listing" => found'[r] # None /\ found'[r].role = "host"
    <3>1. CASE RequireAuth(r)
      BY <3>1, NoneAssumption
         DEF RequireAuth, Behind, RequireRole, Core, TypeOK, Arguments, Prepared
    <3>2. CASE Lookup(r) \/ InsertUser(r)
      BY <3>2 DEF Lookup, InsertUser, Core, TypeOK
    <3>3. QED
      BY <1>1, <3>1, <3>2
  <2>7. QED
    BY <2>1, <2>2, <2>3, <2>4, <2>5, <2>6 DEF Remembered, Known
<1>2. ASSUME NEW r \in Requests, Arrives(r) PROVE Remembered'
  BY <1>2, NothingRead
     DEF Arrives, Start, EmailArrives, VerifyArrives, ApiArrives, Core, TypeOK
<1>3. ASSUME NEW r \in Requests,
             \/ MailOTP(r) \/ StoreOTP(r) \/ StoreOTPErrs(r)
             \/ TakeOTP(r) \/ TakeOTPErrs(r) \/ SetFlag(r) \/ SetFlagErrs(r)
      PROVE  Remembered'
  BY <1>3, NothingRead
     DEF MailOTP, StoreOTP, StoreOTPErrs, TakeOTP, TakeOTPErrs, SetFlag, SetFlagErrs,
         Core, TypeOK
<1>4. ASSUME NEW r \in Requests,
             \/ SeeUser(r) \/ CheckFlag(r) \/ Exchange(r) \/ LookupErrs(r)
             \/ InsertUserErrs(r) \/ RequireAuthErrs(r) \/ UpdateRoleErrs(r)
             \/ GetCurrentUser(r) \/ Crash(r)
      PROVE  Remembered'
  BY <1>4, NothingRead
     DEF SeeUser, CheckFlag, Exchange, LookupErrs, InsertUserErrs, RequireAuthErrs,
         UpdateRoleErrs, GetCurrentUser, Crash, Core, TypeOK
<1>5. ASSUME NEW r \in Requests, NewSession(r) \/ NewSessionErrs(r)
      PROVE  Remembered'
  BY <1>5, NothingRead DEF NewSession, NewSessionErrs, Core, TypeOK
<1>6. ASSUME NEW r \in Requests, UpdateRole(r) PROVE Remembered'
  <2>1. UNCHANGED session
    BY <1>6, KeysAssumption, NoneAssumption
       DEF UpdateRole, RoleAllowed, Core, TypeOK, People, Arguments, Prepared, Stored
  <2>2. QED
    BY <1>6, <2>1, NothingRead DEF UpdateRole, Core, TypeOK
<1>7. ASSUME NEW x, CodeExpires(x) \/ FlagExpires(x) \/ MadeHost(x)
      PROVE  Remembered'
  BY <1>7, NothingRead DEF CodeExpires, FlagExpires, MadeHost
<1>8. ASSUME NEW s \in Requests, SessionExpires(s) PROVE Remembered'
  BY <1>8, NothingRead DEF SessionExpires, Core, TypeOK
<1>9. CASE UNCHANGED vars
  BY <1>9, NothingRead DEF vars
<1>10. QED
  BY <1>1, <1>2, <1>3, <1>4, <1>5, <1>6, <1>7, <1>8, <1>9 DEF Next, Step

\* Every step keeps the inductive invariant.
LEMMA StepInv == IInv /\ [Next]_vars => IInv'
BY CoreStep, RememberedStep DEF IInv, Core

-----------------------------------------------------------------------------

\* Between any two of its calls a request is where its earlier calls put it:
\* the invariant that the properties below rest on.
THEOREM Inductive == Spec => []IInv
<1>1. QED
  BY InitInv, StepInv, PTL DEF Spec

\* Type correctness: an address, a user or a number is never stored where
\* another of them is expected.
THEOREM TypeCorrect == Spec => []TypeOK
<1>1. IInv => TypeOK
  BY DEF IInv
<1>2. QED
  BY <1>1, Inductive, PTL

\* A one-time code is taken by one verification of the address it was mailed
\* to, whatever races, expires or fails (VerifyOTP).
THEOREM CodesUsedOnce == Spec => []OneGuessPerCode
<1>1. IInv => OneGuessPerCode
  BY DEF IInv
<1>2. QED
  BY <1>1, Inductive, PTL

\* An address has one users row, however Register and LoginWithGoogle race.
THEOREM UsersUnique == Spec => []OneUserPerEmail
<1>1. IInv => OneUserPerEmail
  BY DEF IInv
<1>2. QED
  BY <1>1, Inductive, PTL

\* However codes, flags, rows and expiries interleave, the user in a session has
\* the address that its request gave, and what its endpoint asks for had
\* happened: some verification received the mailed code, since the flag is only
\* set then, or a token of Google named the address.
THEOREM SessionsProved == Spec => []SessionsEarned
<1>1. IInv => SessionsEarned
  BY DEF IInv
<1>2. QED
  BY <1>1, Inductive, PTL

\* Properties are listed by users who are hosts in the users table, however old
\* the session that RequireRole asks.
THEOREM ListedByHosts == Spec => []HostsList
<1>1. IInv => HostsList
  BY DEF IInv, TypeOK, People, Remembered, Known, HostsList
<1>2. QED
  BY <1>1, Inductive, PTL
-----------------------------------------------------------------------------
(* Refinement *)

\* UpdateRole changes nothing: the flag it asks for has the name of a user, and
\* flags only have names of addresses.
LEMMA NoRoleUpdated ==
  ASSUME IInv, NEW r \in Requests, UpdateRole(r)
  PROVE  UNCHANGED <<role, session>>
<1>1. found[r] \in People
  BY DEF UpdateRole, IInv, TypeOK, Arguments, Prepared
<1>2. found[r].id \notin flags
  BY <1>1, KeysAssumption DEF People, IInv, TypeOK, Stored
<1>3. QED
  BY <1>2 DEF UpdateRole, RoleAllowed

\* A user's row is written for an address without one that was vouched for.
LEMMA InsertRegisters ==
  ASSUME IInv, NEW r \in Requests, InsertUser(r) \/ InsertUserErrs(r)
  PROVE  UNCHANGED Id!vars \/ Id!Next
<1> USE DEF redis, request, history
<1>1. /\ UNCHANGED <<proved, named, role, session>>
      /\ \/ UNCHANGED account
         \/ /\ account' = [account EXCEPT ![r] = email[r]]
            /\ Owner(email[r]) = {}
  BY DEF InsertUser, InsertUserErrs
<1>2. PICK e \in Emails :
        e = email[r] /\ e \in proved \cup named /\ account[r] = None
  BY DEF InsertUser, InsertUserErrs, IInv, Arguments, Prepared, Evidence
<1>3. CASE UNCHANGED account
  BY <1>1, <1>3 DEF Id!vars
<1>4. CASE account' = [account EXCEPT ![r] = e] /\ Owner(e) = {}
  <2>1. Id!Register(r, e)
    BY <1>1, <1>2, <1>4 DEF Id!Register, Owner
  <2>2. QED
    BY <2>1 DEF Id!Next
<1>5. QED
  BY <1>1, <1>2, <1>3, <1>4

\* The user in a new session was read some steps ago; the row is still there,
\* and the role has not fallen since.
LEMMA SessionSignsIn ==
  ASSUME IInv, NEW r \in Requests, NewSession(r) \/ NewSessionErrs(r)
  PROVE  UNCHANGED Id!vars \/ Id!Next
<1> USE DEF users, history
<1>1. /\ UNCHANGED <<proved, named, account, role>>
      /\ \/ UNCHANGED session
         \/ session' = [session EXCEPT ![r] = found[r]]
  BY DEF NewSession, NewSessionErrs
<1>2. /\ pc[r] = "session" /\ session[r] = None
      /\ found[r] \in People /\ Known(found[r])
      /\ email[r] \in proved \cup named /\ account[found[r].id] = email[r]
  BY DEF NewSession, NewSessionErrs, IInv, TypeOK, Arguments, Prepared, Remembered,
         Evidence, Active
<1>3. PICK id \in Requests, held \in Roles : found[r] = [id |-> id, role |-> held]
  BY <1>2 DEF People
<1>4. CASE UNCHANGED session
  BY <1>1, <1>4 DEF Id!vars
<1>5. CASE session' = [session EXCEPT ![r] = found[r]]
  <2>1. Id!SignIn(r, id, held)
    BY <1>1, <1>2, <1>3, <1>5 DEF Id!SignIn, Known
  <2>2. QED
    BY <1>3, <2>1 DEF Id!Next, Roles
<1>6. QED
  BY <1>1, <1>4, <1>5

\* Handlers, codes and flags implement Identity: taking the right code and the
\* answer of Google are Vouch, the INSERT is Register, storing a session is
\* SignIn, its expiry SignOut, and every other step is a stutter.
THEOREM Refines == Spec => ImplementsIdentity
<1>1. Init => Id!Init
  BY DEF Init, Id!Init
<1>2. ASSUME IInv, [Next]_vars PROVE [Id!Next]_(Id!vars)
  <2> USE DEF redis, users, request, history, Goto
  <2>1. ASSUME NEW r \in Requests, TakeOTP(r) \/ Exchange(r)
        PROVE  UNCHANGED Id!vars \/ Id!Next
    <3>1. PICK e \in Emails : e = email[r]
      BY <1>2, <2>1 DEF TakeOTP, Exchange, IInv, Arguments, Prepared
    <3>2. /\ UNCHANGED <<account, role, session>>
          /\ \/ UNCHANGED <<proved, named>>
             \/ proved' \cup named' = (proved \cup named) \cup {e}
      BY <2>1, <3>1 DEF TakeOTP, Exchange
    <3>3. CASE UNCHANGED <<proved, named>>
      BY <3>2, <3>3 DEF Id!vars
    <3>4. CASE proved' \cup named' = (proved \cup named) \cup {e}
      BY <3>2, <3>4 DEF Id!Next, Id!Vouch
    <3>5. QED
      BY <3>2, <3>3, <3>4
  <2>2. ASSUME NEW r \in Requests, UpdateRole(r) PROVE UNCHANGED Id!vars
    BY <1>2, <2>2, NoRoleUpdated DEF UpdateRole, Id!vars
  <2>3. ASSUME NEW s \in Requests, SessionExpires(s) PROVE Id!Next
    BY <2>3 DEF SessionExpires, Id!Next, Id!SignOut
  <2>4. ASSUME NEW id \in Requests, MadeHost(id) PROVE Id!Next
    BY <2>4 DEF MadeHost, Id!Next, Id!MakeHost
  <2>5. ASSUME NEW r \in Requests, Arrives(r) \/ Crash(r) PROVE UNCHANGED Id!vars
    BY <2>5 DEF Arrives, EmailArrives, VerifyArrives, ApiArrives, Crash, Id!vars
  <2>6. ASSUME NEW e, CodeExpires(e) \/ FlagExpires(e) PROVE UNCHANGED Id!vars
    BY <2>6 DEF CodeExpires, FlagExpires, Id!vars
  <2>7. ASSUME NEW r \in Requests,
               \/ MailOTP(r) \/ StoreOTP(r) \/ StoreOTPErrs(r) \/ TakeOTPErrs(r)
               \/ SetFlag(r) \/ SetFlagErrs(r) \/ SeeUser(r) \/ CheckFlag(r)
        PROVE  UNCHANGED Id!vars
    BY <2>7 DEF MailOTP, StoreOTP, StoreOTPErrs, TakeOTPErrs, SetFlag, SetFlagErrs,
                SeeUser, CheckFlag, Id!vars
  <2>8. ASSUME NEW r \in Requests,
               \/ Lookup(r) \/ LookupErrs(r) \/ RequireAuth(r) \/ RequireAuthErrs(r)
               \/ UpdateRoleErrs(r) \/ GetCurrentUser(r)
        PROVE  UNCHANGED Id!vars
    BY <2>8 DEF Lookup, LookupErrs, RequireAuth, RequireAuthErrs, UpdateRoleErrs,
                GetCurrentUser, Id!vars
  <2>9. ASSUME NEW r \in Requests, Step(r) PROVE [Id!Next]_(Id!vars)
    BY <1>2, <2>1, <2>2, <2>7, <2>8, <2>9, InsertRegisters, SessionSignsIn DEF Step
  <2>10. CASE UNCHANGED vars
    BY <2>10 DEF vars, Id!vars
  <2>11. QED
    BY <1>2, <2>3, <2>4, <2>5, <2>6, <2>9, <2>10 DEF Next
<1>3. QED
  BY <1>1, <1>2, Inductive, PTL DEF Spec, Id!Spec, ImplementsIdentity

\* What Identity promises of each step is true of the tables and of Redis: no
\* row of users changes its address or disappears, no host becomes a user, and
\* a session is never rewritten.
UsersLast ==
  \A id \in Requests :
    /\ account[id] # None => account'[id] = account[id]
    /\ role[id] = "host" => role'[id] = "host"
    /\ session[id] # None => session'[id] \in {session[id], None}

\* Rows stay, roles rise and sessions are written once, by any interleaving.
THEOREM UsersForGood == Spec => [][UsersLast]_vars
<1>1. ASSUME IInv, [Next]_vars, [Id!Next]_(Id!vars) PROVE [UsersLast]_vars
  <2> USE DEF UsersLast, IInv, TypeOK
  <2>1. CASE UNCHANGED Id!vars
    BY <2>1 DEF Id!vars
  <2>2. ASSUME NEW e \in Emails, Id!Vouch(e) PROVE UsersLast
    BY <2>2 DEF Id!Vouch
  <2>3. ASSUME NEW id \in Requests, Id!MakeHost(id) \/ Id!SignOut(id)
        PROVE  UsersLast
    BY <1>1, <2>3 DEF Id!MakeHost, Id!SignOut
  <2>4. ASSUME NEW id \in Requests, NEW e \in Emails, Id!Register(id, e)
        PROVE  UsersLast
    BY <1>1, <2>4 DEF Id!Register
  <2>5. ASSUME NEW id \in Requests, NEW s \in Requests,
               NEW held \in {"user", "host"}, Id!SignIn(s, id, held)
        PROVE  UsersLast
    BY <1>1, <2>5 DEF Id!SignIn
  <2>6. QED
    BY <1>1, <2>1, <2>2, <2>3, <2>4, <2>5 DEF Id!Next
<1>2. QED
  BY <1>1, Inductive, Refines, PTL DEF Spec, ImplementsIdentity, Id!Spec
=============================================================================
