---------------------------- MODULE BrowseProofs ----------------------------
(***************************************************************************)
(* Proofs about Browse, for any calendar, bookings, galleries and number   *)
(* of readers.                                                             *)
(***************************************************************************)
EXTENDS Browse, TLAPS

\* The first state satisfies the inductive invariant.
LEMMA InitInv == Init => IInv
BY NoneAssumption
   DEF Init, Cat!Init, Res!Init, Rows, Res!Rows, Blank, IInv, TypeOK, Known, Stored,
       SearchedThen, CalendarThen, PicturesLast, Views, Statuses, Lists, Errors

\* Hosts: an image that has been shown as active or failed stays so.
LEMMA HostSteps == IInv /\ HostStep => IInv'
<1> SUFFICES ASSUME IInv, HostStep PROVE IInv'
  OBVIOUS
<1> USE DEF IInv, HostStep, catalogue, reservations, answers
<1>1. ASSUME NEW p \in Properties, NEW fs \in Galleries, Cat!List(p, fs)
      PROVE  IInv'
  <2> USE DEF Cat!List
  <2>1. TypeOK'
    BY <1>1 DEF TypeOK, Views, Statuses
  <2>2. \A f \in Images : status[p][f] = "none"
    BY <1>1 DEF Stored
  <2>3. \A q \in Properties : q # p => status'[q] = status[q]
    BY <1>1 DEF TypeOK, Views
  <2>4. \A f \in Images : status'[p][f] \in {"none", "uploading"}
    BY <1>1 DEF TypeOK, Views
  <2>5. Stored'
    BY <1>1, <2>3, <2>4 DEF Stored, TypeOK
  <2>6. PicturesLast'
    BY <1>1, <2>2, <2>3 DEF PicturesLast, TypeOK
  <2>7. Known' /\ SearchedThen' /\ CalendarThen'
    BY <1>1 DEF Known, SearchedThen, CalendarThen, NightsIn, TakenThen
  <2>8. QED
    BY <2>1, <2>5, <2>6, <2>7
<1>2. ASSUME NEW p \in Properties, NEW f \in Images, Cat!ImageStep(p, f)
      PROVE  IInv'
  <2> USE DEF Cat!ImageStep, Cat!Store, Cat!Activate, Cat!Reject
  <2>1. TypeOK'
    <3>1. CASE Cat!Store(p, f)
      BY <3>1 DEF TypeOK, Views
    <3>2. CASE Cat!Activate(p, f)
      BY <3>2 DEF TypeOK, Views, Statuses
    <3>3. CASE Cat!Reject(p, f)
      BY <3>3 DEF TypeOK, Views, Statuses
    <3>4. QED
      BY <1>2, <3>1, <3>2, <3>3
  <2>2. /\ status[p][f] = "uploading" /\ listed' = listed
        /\ \A q \in Properties : bucket[q] \subseteq bucket'[q]
    BY <1>2 DEF TypeOK
  <2>3. \A q \in Properties, g \in Images :
           <<q, g>> # <<p, f>> => status'[q][g] = status[q][g]
    BY <1>2 DEF TypeOK, Views
  <2>4. status'[p][f] = "active" => f \in bucket[p]
    BY <1>2, <2>2 DEF TypeOK, Views
  <2>5. p \in listed
    BY <2>2 DEF Stored
  <2>6. Stored'
    BY <2>2, <2>3, <2>4, <2>5 DEF Stored
  <2>7. PicturesLast'
    BY <2>2, <2>3 DEF PicturesLast, TypeOK
  <2>8. Known' /\ SearchedThen' /\ CalendarThen'
    BY <1>2 DEF Known, SearchedThen, CalendarThen, NightsIn, TakenThen
  <2>9. QED
    BY <2>1, <2>6, <2>7, <2>8
<1>3. QED
  BY <1>1, <1>2 DEF Cat!Next

\* Guests: a confirmation is of a booking no answer knows, so what was taken
\* when an answer was given can still be told from the calendar.
LEMMA GuestSteps ==
  ASSUME IInv, NEW b \in Bookings,
         \/ GuestConfirms(b) \/ GuestWithdraws(b)
         \/ \E s \in Stays : GuestReserves(b, s)
  PROVE  IInv'
<1> USE DEF IInv, catalogue, answers
<1>1. CASE \E s \in Stays : GuestReserves(b, s)
  BY <1>1 DEF GuestReserves, Res!Reserve, TypeOK, Known, Stored, SearchedThen,
              CalendarThen, PicturesLast, NightsIn, TakenThen
<1>2. CASE GuestConfirms(b)
  <2> USE DEF GuestConfirms, Res!Confirm, Rows, Res!Rows
  <2>1. TypeOK'
    BY <1>2 DEF TypeOK
  <2>2. b \notin confirmed /\ confirmed' = confirmed \cup {b}
    BY <1>2
  <2>3. \A d \in Rows : owner'[d] = owner[d] \/ (owner[d] = None /\ owner'[d] = b)
    BY <1>2 DEF TypeOK
  <2> HIDE DEF GuestConfirms, Res!Confirm, Rows, Res!Rows
  <2>4. Known'
    BY <1>2, <2>2, <2>3 DEF Known, GuestConfirms
  <2>5. ASSUME NEW r \in Requests, NEW d \in Rows
        PROVE  TakenThen(r, d)' <=> TakenThen(r, d)
    <3>1. before'[r] = before[r] /\ before[r] \subseteq Bookings /\ b \notin before[r]
      BY <1>2, <2>2 DEF GuestConfirms, Known, TypeOK
    <3>2. QED
      BY <2>3, <3>1, NoneAssumption DEF TakenThen
  <2>6. UNCHANGED <<catalogue, answers>>
    BY <1>2 DEF GuestConfirms
  <2>7. SearchedThen'
    BY <2>5, <2>6 DEF SearchedThen, NightsIn, TypeOK
  <2>8. CalendarThen'
    BY <2>5, <2>6 DEF CalendarThen
  <2>9. Stored' /\ PicturesLast'
    BY <2>6 DEF Stored, PicturesLast
  <2>10. QED
    BY <2>1, <2>4, <2>7, <2>8, <2>9
<1>3. CASE GuestWithdraws(b)
  BY <1>3 DEF GuestWithdraws, Res!Withdraw, TypeOK, Known, Stored, SearchedThen,
              CalendarThen, PicturesLast, NightsIn, TakenThen
<1>4. QED
  BY <1>1, <1>2, <1>3

\* What an answer shows of the pictures is what the tables say.
LEMMA ShowSteps ==
  ASSUME IInv, NEW r \in Requests,
         NEW k \in Lists, NEW ps \in SUBSET listed, NEW statuses,
         kind' = [kind EXCEPT ![r] = k], Show(r, ps, statuses),
         k \in {"all", "search"} => statuses = {"active"} /\ WithActive(ps) = ps,
         UNCHANGED <<catalogue, reservations>>
  PROVE  /\ PicturesLast'
         /\ seen' \in [Requests -> Views] /\ shows' \in [Requests -> SUBSET Properties]
         /\ before' \in [Requests -> SUBSET Bookings]
<1> USE DEF IInv, TypeOK, Show, catalogue, reservations
<1>1. Pictures(ps, statuses) \in Views
  BY DEF Pictures, Views, Statuses
<1>2. /\ seen' \in [Requests -> Views] /\ shows' \in [Requests -> SUBSET Properties]
      /\ before' \in [Requests -> SUBSET Bookings]
  BY <1>1
<1>3. \A q \in Requests : q # r =>
        kind'[q] = kind[q] /\ seen'[q] = seen[q] /\ shows'[q] = shows[q]
  OBVIOUS
<1>4. kind'[r] = k /\ shows'[r] = ps /\ seen'[r] = Pictures(ps, statuses)
  OBVIOUS
<1>5. ASSUME NEW p \in ps, NEW f \in Images
      PROVE  /\ seen'[r][p][f] = IF status[p][f] \in statuses THEN status[p][f] ELSE "none"
             /\ status[p][f] = "active" => f \in bucket[p]
  BY <1>4 DEF Pictures, Stored
<1>6. ASSUME NEW p \in ps, k \in {"all", "search"}
      PROVE  /\ \E f \in Images : seen'[r][p][f] = "active"
             /\ \A f \in Images : seen'[r][p][f] \in {"none", "active"}
  BY <1>5, <1>6 DEF WithActive
<1>7. PicturesLast'
  BY <1>3, <1>4, <1>5, <1>6 DEF PicturesLast
<1>8. QED
  BY <1>2, <1>7

\* Readers: an answer that is given now agrees with the tables of now.
LEMMA ReadSteps == ASSUME IInv, NEW r \in Requests, Read(r) PROVE IInv'
<1> USE DEF IInv
<1>1. CASE GetAllProperties(r)
  <2>1. PicturesLast' /\ TypeOK'
    BY <1>1, ShowSteps DEF GetAllProperties, Becomes, TypeOK, Lists, WithActive,
                           catalogue, reservations
  <2>2. Known' /\ Stored' /\ SearchedThen' /\ CalendarThen'
    BY <1>1 DEF GetAllProperties, Becomes, Show, TypeOK, Known, Stored, SearchedThen,
                CalendarThen, NightsIn, TakenThen, catalogue, reservations
  <2>3. QED
    BY <2>1, <2>2
<1>2. ASSUME NEW h \in Hosts, GetPropertiesByHostID(r, h) PROVE IInv'
  <2>1. PicturesLast' /\ TypeOK'
    BY <1>2, ShowSteps DEF GetPropertiesByHostID, Becomes, TypeOK, Lists,
                           catalogue, reservations
  <2>2. Known' /\ Stored' /\ SearchedThen' /\ CalendarThen'
    BY <1>2 DEF GetPropertiesByHostID, Becomes, Show, TypeOK, Known, Stored,
                SearchedThen, CalendarThen, NightsIn, TakenThen, catalogue, reservations
  <2>3. QED
    BY <2>1, <2>2
<1>3. ASSUME NEW p \in Properties, GetPropertyByID(r, p) PROVE IInv'
  <2>1. CASE p \in listed
    <3>1. PicturesLast' /\ TypeOK'
      BY <1>3, <2>1, ShowSteps DEF GetPropertyByID, Becomes, TypeOK, Lists,
                                   catalogue, reservations
    <3>2. Known' /\ Stored'
      BY <1>3, <2>1 DEF GetPropertyByID, Becomes, Show, TypeOK, Known, Stored,
                        catalogue, reservations
    <3>3. SearchedThen' /\ CalendarThen'
      BY <1>3, <2>1 DEF GetPropertyByID, Becomes, Show, TypeOK, SearchedThen,
                        CalendarThen, NightsIn, TakenThen, catalogue, reservations
    <3>4. QED
      BY <3>1, <3>2, <3>3
  <2>2. CASE p \notin listed
    <3>1. Pictures({}, {}) \in Views
      BY DEF Pictures, Views, Statuses
    <3>2. TypeOK'
      BY <1>3, <2>2, <3>1 DEF GetPropertyByID, Becomes, Show, TypeOK, Errors,
                              catalogue, reservations
    <3>3. Known' /\ Stored' /\ SearchedThen' /\ CalendarThen'
      BY <1>3, <2>2
         DEF GetPropertyByID, Becomes, Show, TypeOK, Known, Stored, SearchedThen,
             CalendarThen, NightsIn, TakenThen, catalogue, reservations
    <3>4. PicturesLast'
      BY <1>3, <2>2
         DEF GetPropertyByID, Becomes, Show, TypeOK, Lists, PicturesLast, catalogue
    <3>5. QED
      BY <3>2, <3>3, <3>4
  <2>3. QED
    BY <2>1, <2>2
<1>4. ASSUME NEW p \in Properties, GetPropertyAvailability(r, p) PROVE IInv'
  <2> USE <1>4 DEF GetPropertyAvailability, Becomes, catalogue, reservations
  <2>1. TypeOK'
    BY DEF TypeOK, RowsOf
  <2>2. Known' /\ Stored' /\ SearchedThen' /\ PicturesLast'
    BY DEF TypeOK, Known, Stored, SearchedThen, PicturesLast, Lists, NightsIn, TakenThen
  <2>3. \A d \in Rows : IsAvailable(d) <=> ~TakenThen(r, d)'
    BY NoneAssumption DEF TypeOK, Known, IsAvailable, TakenThen
  <2>4. /\ kind'[r] = "days" /\ shows'[r] = {p} \cap listed
        /\ takenDays'[r] = {d \in RowsOf(p) : ~IsAvailable(d)}
        /\ freeDays'[r] = {d \in RowsOf(p) : IsAvailable(d)}
    BY DEF TypeOK
  <2>5. /\ takenDays'[r] = {d \in Rows : d[1] \in shows'[r] /\ TakenThen(r, d)'}
        /\ freeDays'[r] = {d \in Rows : d[1] \in shows'[r] /\ ~TakenThen(r, d)'}
    BY <2>3, <2>4 DEF RowsOf
  <2>6. \A q \in Requests : q # r =>
          /\ kind'[q] = kind[q] /\ shows'[q] = shows[q]
          /\ takenDays'[q] = takenDays[q] /\ freeDays'[q] = freeDays[q]
          /\ \A d \in Rows : TakenThen(q, d)' <=> TakenThen(q, d)
    BY DEF TypeOK, TakenThen
  <2>7. CalendarThen'
    BY <2>5, <2>6 DEF CalendarThen
  <2>8. QED
    BY <2>1, <2>2, <2>7
<1>5. ASSUME NEW dest, NEW ds \in Dates, SearchProperties(r, dest, ds) PROVE IInv'
  <2> DEFINE near == {p \in listed : dest \in Matches[p]}
             found == {p \in near : ~Blocked(p, ds)}
  <2>1. /\ kind[r] = "none" /\ kind' = [kind EXCEPT ![r] = "search"]
        /\ Show(r, WithActive(found), {"active"})
        /\ dates' = [dates EXCEPT ![r] = ds]
        /\ eligible' = [eligible EXCEPT ![r] = WithActive(near)]
        /\ UNCHANGED <<catalogue, reservations, freeDays, takenDays>>
    BY <1>5 DEF SearchProperties, Becomes
  <2>2. WithActive(found) \subseteq listed /\ WithActive(near) \subseteq listed
    BY DEF WithActive
  <2>3. WithActive(WithActive(found)) = WithActive(found)
    BY DEF WithActive
  <2>4. PicturesLast' /\ TypeOK'
    <3> HIDE DEF found, near
    <3>1. PicturesLast' /\ seen' \in [Requests -> Views]
          /\ shows' \in [Requests -> SUBSET Properties]
          /\ before' \in [Requests -> SUBSET Bookings]
      BY <2>1, <2>2, <2>3, ShowSteps DEF Lists
    <3>2. QED
      BY <2>1, <2>2, <3>1 DEF TypeOK, Lists, catalogue, reservations
  <2>5. Known' /\ Stored' /\ CalendarThen'
    BY <2>1 DEF TypeOK, Show, Known, Stored, CalendarThen, TakenThen, catalogue,
                reservations
  <2>6. \A d \in Rows : IsAvailable(d) <=> ~TakenThen(r, d)'
    BY <2>1, NoneAssumption DEF Show, TypeOK, Known, IsAvailable, TakenThen, reservations
  <2>7. ASSUME NEW p \in listed
        PROVE  Blocked(p, ds) <=> \E d \in NightsIn(p, ds) : TakenThen(r, d)'
    BY <2>6 DEF Blocked, RowsOf, NightsIn
  <2>8. /\ kind'[r] = "search" /\ dates'[r] = ds
        /\ shows'[r] = WithActive(found) /\ eligible'[r] = WithActive(near)
    BY <2>1 DEF Show, TypeOK
  <2>9. ds \in Dates
    BY <1>5
  <2>10. /\ shows'[r] \subseteq eligible'[r]
         /\ \A p \in eligible'[r] :
              p \in shows'[r] <=> \A d \in NightsIn(p, ds) : ~TakenThen(r, d)'
    BY <2>7, <2>8 DEF WithActive
  <2>11. \A q \in Requests : q # r =>
           /\ kind'[q] = kind[q] /\ shows'[q] = shows[q] /\ dates'[q] = dates[q]
           /\ eligible'[q] = eligible[q]
           /\ \A d \in Rows : TakenThen(q, d)' <=> TakenThen(q, d)
    BY <2>1 DEF Show, TypeOK, TakenThen, reservations
  <2>12. SearchedThen'
    BY <2>8, <2>9, <2>10, <2>11 DEF SearchedThen, NightsIn
  <2>13. QED
    BY <2>4, <2>5, <2>12
<1>6. ASSUME NEW k \in {"refused", "failed"}, Becomes(r, k),
             UNCHANGED <<catalogue, reservations, dates, shows, seen, freeDays,
                         takenDays, before, eligible>>
      PROVE  IInv'
  BY <1>6 DEF Becomes, TypeOK, Errors, Known, Stored, SearchedThen, CalendarThen, Lists,
              PicturesLast, NightsIn, TakenThen, catalogue, reservations
<1>7. QED
  BY <1>1, <1>2, <1>3, <1>4, <1>5, <1>6 DEF Read, SearchRefused, ReadErrs

\* Every step keeps the inductive invariant.
LEMMA StepInv == IInv /\ [Next]_vars => IInv'
<1> SUFFICES ASSUME IInv, [Next]_vars PROVE IInv'
  OBVIOUS
<1>1. CASE UNCHANGED vars
  BY <1>1 DEF vars, catalogue, reservations, answers, IInv, TypeOK, Known, Stored,
              SearchedThen, CalendarThen, PicturesLast, NightsIn, TakenThen
<1>2. QED
  BY <1>1, HostSteps, GuestSteps, ReadSteps DEF Next

-----------------------------------------------------------------------------
(* Theorems *)

\* In every reachable state the answers on the visitors' screens can be told
\* from the tables of that state and from what was confirmed when they were
\* given.
THEOREM Inductive == Spec => []IInv
BY InitInv, StepInv, PTL DEF Spec

\* Type correctness of the tables and of the answers.
THEOREM TypeCorrect == Spec => []TypeOK
<1>1. IInv => TypeOK
  BY DEF IInv
<1>2. QED
  BY <1>1, Inductive, PTL

\* A property that a search leaves out for its dates can never be booked for
\* them again: the two packages compare dates differently, and to no harm.
THEOREM NothingMissed == Spec => []HiddenForGood
<1>1. ASSUME IInv, NEW r \in Requests, kind[r] = "search",
             NEW p \in eligible[r] \ shows[r]
      PROVE  ~Bookable(p, dates[r])
  <2>1. PICK d \in NightsIn(p, dates[r]) : TakenThen(r, d)
    BY <1>1 DEF IInv, SearchedThen
  <2>2. dates[r] \in Dates /\ p \in Properties /\ owner[d] # None
    BY <1>1, <2>1, NoneAssumption
       DEF IInv, TypeOK, SearchedThen, TakenThen
  <2>3. dates[r].checkIn \in Int /\ dates[r].checkOut \in Int
    BY <2>2, StaysAssumption DEF Dates
  <2>4. PICK q \in Properties, n \in Int : d = <<q, n>>
    BY <2>1, FirstDayAssumption, HorizonAssumption DEF NightsIn, Rows
  <2>5. d \in Nights([property |-> p, checkIn |-> dates[r].checkIn,
                      checkOut |-> dates[r].checkOut])
    BY <2>1, <2>3, <2>4 DEF NightsIn, Nights
  <2>6. QED
    BY <2>2, <2>5 DEF Bookable
<1>2. IInv => HiddenForGood
  BY <1>1 DEF HiddenForGood
<1>3. QED
  BY <1>2, Inductive, PTL

\* The nights of a property that a search shows were free when it answered.
THEOREM FoundFree == Spec => []FoundWasFree
<1>1. IInv => FoundWasFree
  BY DEF IInv, SearchedThen, FoundWasFree, TakenThen
<1>2. QED
  BY <1>1, Inductive, PTL

\* A picture on a list or in a search result keeps its object and its status.
THEOREM PicturesTrue == Spec => []PicturesLast
<1>1. IInv => PicturesLast
  BY DEF IInv
<1>2. QED
  BY <1>1, Inductive, PTL

\* Calendar and search agree when no booking was confirmed between them.
THEOREM ReadersAgree == Spec => []ReadsAgree
<1>1. ASSUME IInv, NEW q \in Requests, NEW r \in Requests,
             kind[q] = "days", kind[r] = "search", before[q] = before[r],
             NEW p \in shows[q] \cap eligible[r]
      PROVE  p \in shows[r] <=> NightsIn(p, dates[r]) \cap takenDays[q] = {}
  <2>1. p \in shows[r] <=> \A d \in NightsIn(p, dates[r]) : ~TakenThen(r, d)
    BY <1>1 DEF IInv, SearchedThen
  <2>2. \A d \in NightsIn(p, dates[r]) : d \in takenDays[q] <=> TakenThen(r, d)
    BY <1>1 DEF IInv, CalendarThen, NightsIn, TakenThen
  <2>3. QED
    BY <2>1, <2>2
<1>2. IInv => ReadsAgree
  BY <1>1 DEF ReadsAgree
<1>3. QED
  BY <1>2, Inductive, PTL

\* A calendar shows each row once, and ages in one direction.
THEOREM CalendarsTrue == Spec => []CalendarsAge
<1>1. IInv => CalendarsAge
  BY NoneAssumption DEF IInv, TypeOK, CalendarThen, CalendarsAge, TakenThen
<1>2. QED
  BY <1>1, Inductive, PTL
=============================================================================
