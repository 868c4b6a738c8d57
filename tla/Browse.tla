------------------------------- MODULE Browse -------------------------------
(***************************************************************************)
(* What the visitors of Stayz are shown while hosts list properties and    *)
(* guests book them: GetAllProperties, GetPropertiesByHostID,              *)
(* GetPropertyByID, GetPropertyAvailability and SearchProperties.          *)
(*                                                                         *)
(* The module composes the two abstract specifications that Listing and    *)
(* Booking are shown to implement, Catalogue and Reservation, with the     *)
(* reads.  A read is one SELECT, hence one step; its answer stays on the   *)
(* visitor's screen while the tables move on, and the properties are       *)
(* about how it ages.  The order of an answer, and the grouping of a       *)
(* calendar by month, are left out.                                        *)
(***************************************************************************)
EXTENDS Calendar

CONSTANTS
  Bookings,     \* names for the rows of table bookings
  Images,       \* names for the images of a property
  Galleries,    \* the sets of images a property may be listed with
  Hosts,
  HostOf,       \* HostOf[p]: properties.host_id
  Destinations, \* what visitors write in the search field
  Matches,      \* Matches[p]: destinations that the state or the city contains
  Requests,     \* read requests, each served once
  None          \* no stay, no owner, no destination

ASSUME NoneAssumption == None \notin Bookings \cup Destinations
ASSUME HostOfAssumption == HostOf \in [Properties -> Hosts]
ASSUME MatchesAssumption == Matches \in [Properties -> SUBSET Destinations]

VARIABLES
  listed, status, bucket,   \* the state of Catalogue
  booked, confirmed, owner, \* the state of Reservation
  kind,     \* what r asked for and was given, or the error it got
  dates,    \* the dates of a search, as a stay of any property
  shows,    \* the properties in the answer
  seen,     \* seen[r][p][f]: the status an image is shown with, or "none"
  freeDays, \* the rows a calendar shows as available
  takenDays,\* and as not available
  before,   \* history: the bookings confirmed when r was answered
  eligible  \* history: what a search would have shown, the dates aside

catalogue == <<listed, status, bucket>>
reservations == <<booked, confirmed, owner>>
answers == <<kind, dates, shows, seen, freeDays, takenDays, before, eligible>>
vars == <<catalogue, reservations, answers>>

Cat == INSTANCE Catalogue WITH Listings <- Properties, Files <- Images
Res == INSTANCE Reservation

Statuses == {"none", "uploading", "active", "failed"}
Lists == {"all", "host", "page", "search"}
Errors == {"not_found", "refused", "failed"}
Views == [Properties -> [Images -> Statuses]]
Dates == {[checkIn |-> s.checkIn, checkOut |-> s.checkOut] : s \in Stays}

TypeOK ==
  /\ listed \subseteq Properties
  /\ status \in Views
  /\ bucket \in [Properties -> SUBSET Images]
  /\ booked \in [Bookings -> Stays \cup {None}]
  /\ confirmed \subseteq Bookings
  /\ owner \in [Rows -> Bookings \cup {None}]
  /\ kind \in [Requests -> Lists \cup Errors \cup {"none", "days"}]
  /\ dates \in [Requests -> Dates \cup {None}]
  /\ shows \in [Requests -> SUBSET Properties]
  /\ seen \in [Requests -> Views]
  /\ freeDays \in [Requests -> SUBSET Rows]
  /\ takenDays \in [Requests -> SUBSET Rows]
  /\ before \in [Requests -> SUBSET Bookings]
  /\ eligible \in [Requests -> SUBSET Properties]

Blank == [p \in Properties |-> [f \in Images |-> "none"]]

Init ==
  /\ Cat!Init
  /\ Res!Init
  /\ kind = [r \in Requests |-> "none"]
  /\ dates = [r \in Requests |-> None]
  /\ shows = [r \in Requests |-> {}]
  /\ seen = [r \in Requests |-> Blank]
  /\ freeDays = [r \in Requests |-> {}]
  /\ takenDays = [r \in Requests |-> {}]
  /\ before = [r \in Requests |-> {}]
  /\ eligible = [r \in Requests |-> {}]

-----------------------------------------------------------------------------
(* The writers *)

\* A host lists a property, or one of its uploads comes to something.
HostStep == Cat!Next /\ UNCHANGED <<reservations, answers>>

\* A guest reserves a stay.  Its days have rows once the property is listed:
\* the trigger writes them in the same transaction.
GuestReserves(b, s) ==
  /\ s.property \in listed
  /\ Res!Reserve(b, s)
  /\ UNCHANGED <<catalogue, answers>>

\* The INSERT of the booking fails after its look at the calendar.
GuestWithdraws(b) == Res!Withdraw(b) /\ UNCHANGED <<catalogue, answers>>

GuestConfirms(b) == Res!Confirm(b) /\ UNCHANGED <<catalogue, answers>>

-----------------------------------------------------------------------------
(* The readers *)

Becomes(r, k) == kind[r] = "none" /\ kind' = [kind EXCEPT ![r] = k]

\* The properties ps, their images of these statuses and no other.
Pictures(ps, statuses) ==
  [p \in Properties |-> [f \in Images |->
     IF p \in ps /\ status[p][f] \in statuses THEN status[p][f] ELSE "none"]]

\* The answer to r shows the properties ps and those images.
Show(r, ps, statuses) ==
  /\ shows' = [shows EXCEPT ![r] = ps]
  /\ seen' = [seen EXCEPT ![r] = Pictures(ps, statuses)]
  /\ before' = [before EXCEPT ![r] = confirmed]

\* Mutant: every property is shown, with an active image or without.
ActiveOrNot(ps) == ps

\* The loop of the service: properties without an active image are left out.
WithActive(ps) == {p \in ps : \E f \in Images : status[p][f] = "active"}

\* Mutant: the images are not filtered.
GetAllUnfiltered(r) ==
  /\ Becomes(r, "all")
  /\ Show(r, WithActive(listed), Statuses)
  /\ UNCHANGED <<catalogue, reservations, dates, freeDays, takenDays, eligible>>

GetAllProperties(r) ==
  /\ Becomes(r, "all")
  /\ Show(r, WithActive(listed), {"active"})
  /\ UNCHANGED <<catalogue, reservations, dates, freeDays, takenDays, eligible>>

\* A host sees all its properties, whatever became of their images.
GetPropertiesByHostID(r, h) ==
  /\ Becomes(r, "host")
  /\ Show(r, {p \in listed : HostOf[p] = h}, Statuses)
  /\ UNCHANGED <<catalogue, reservations, dates, freeDays, takenDays, eligible>>

GetPropertyByID(r, p) ==
  /\ \/ p \in listed /\ Becomes(r, "page") /\ Show(r, {p}, Statuses)
     \/ p \notin listed /\ Becomes(r, "not_found") /\ Show(r, {}, {})
  /\ UNCHANGED <<catalogue, reservations, dates, freeDays, takenDays, eligible>>

\* The rows of property_availability there are by now.
RowsOf(p) == {d \in Rows : d[1] = p /\ p \in listed}

\* Mutant: the flag is read the wrong way round.
Available(d) == owner[d] # None
IsAvailable(d) == owner[d] = None

\* A property that does not exist has an empty calendar, not a 404.
GetPropertyAvailability(r, p) ==
  /\ Becomes(r, "days")
  /\ freeDays' = [freeDays EXCEPT ![r] = {d \in RowsOf(p) : IsAvailable(d)}]
  /\ takenDays' = [takenDays EXCEPT ![r] = {d \in RowsOf(p) : ~IsAvailable(d)}]
  /\ before' = [before EXCEPT ![r] = confirmed]
  /\ shows' = [shows EXCEPT ![r] = {p} \cap listed]
  /\ UNCHANGED <<catalogue, reservations, dates, seen, eligible>>

\* Mutants: the subquery is not tied to the property; the night of the arrival
\* is not looked at; the day of check-out is.
BlockedAnywhere(p, ds) ==
  \E d \in Rows : ds.checkIn <= d[2] /\ d[2] < ds.checkOut /\ ~IsAvailable(d)
BlockedLater(p, ds) ==
  \E d \in RowsOf(p) : ds.checkIn < d[2] /\ d[2] < ds.checkOut /\ ~IsAvailable(d)
BlockedToCheckOut(p, ds) ==
  \E d \in RowsOf(p) : ds.checkIn <= d[2] /\ d[2] <= ds.checkOut /\ ~IsAvailable(d)

\* The subquery of Search: the day of check-out is not looked at, and days
\* without a row block nothing.
Blocked(p, ds) ==
  \E d \in RowsOf(p) : ds.checkIn <= d[2] /\ d[2] < ds.checkOut /\ ~IsAvailable(d)

\* The destination is not empty and the check-out comes after the check-in.
Searchable(dest, ds) == dest # None /\ ds.checkIn < ds.checkOut

SearchProperties(r, dest, ds) ==
  LET near == {p \in listed : dest \in Matches[p]}
  IN /\ Searchable(dest, ds)
     /\ Becomes(r, "search")
     /\ dates' = [dates EXCEPT ![r] = ds]
     /\ Show(r, WithActive({p \in near : ~Blocked(p, ds)}), {"active"})
     /\ eligible' = [eligible EXCEPT ![r] = WithActive(near)]
     /\ UNCHANGED <<catalogue, reservations, freeDays, takenDays>>

SearchRefused(r, dest, ds) ==
  /\ ~Searchable(dest, ds)
  /\ Becomes(r, "refused")
  /\ UNCHANGED <<catalogue, reservations, dates, shows, seen, freeDays, takenDays,
                 before, eligible>>

\* The query fails, or its rows do not scan: an internal error.
ReadErrs(r) ==
  /\ Becomes(r, "failed")
  /\ UNCHANGED <<catalogue, reservations, dates, shows, seen, freeDays, takenDays,
                 before, eligible>>

-----------------------------------------------------------------------------

Read(r) ==
  \/ GetAllProperties(r)
  \/ \E h \in Hosts : GetPropertiesByHostID(r, h)
  \/ \E p \in Properties : GetPropertyByID(r, p) \/ GetPropertyAvailability(r, p)
  \/ \E dest \in Destinations \cup {None}, ds \in Dates :
       SearchProperties(r, dest, ds) \/ SearchRefused(r, dest, ds)
  \/ ReadErrs(r)

Next ==
  \/ HostStep
  \/ \E b \in Bookings :
       GuestConfirms(b) \/ GuestWithdraws(b) \/ \E s \in Stays : GuestReserves(b, s)
  \/ \E r \in Requests : Read(r)

Spec == Init /\ [][Next]_vars

-----------------------------------------------------------------------------
(* Properties *)

\* The days of p in ds, the day of check-out left out.
NightsIn(p, ds) == {d \in Rows : d[1] = p /\ ds.checkIn <= d[2] /\ d[2] < ds.checkOut}

\* A CreateBooking that looks at the calendar now would accept these dates of p.
Bookable(p, ds) ==
  \A d \in Nights([property |-> p, checkIn |-> ds.checkIn, checkOut |-> ds.checkOut]) :
    d \in Rows /\ owner[d] = None

\* What a search hides is no loss, then or later: a property in the right place
\* with a picture to show, left out for its dates, is refused from then on by
\* every CreateBooking that looks at the calendar.  Search and CreateBooking
\* compare dates differently, in two packages; this is why a guest who believes
\* the search misses nothing.
HiddenForGood ==
  \A r \in Requests : kind[r] = "search" =>
    \A p \in eligible[r] \ shows[r] : ~Bookable(p, dates[r])

\* What a search shows was free for its nights when it answered: whoever has
\* one of them now confirmed later.  (The day of check-out, and days without a
\* row, are not promised: CreateBooking may refuse a stay that was just found.)
FoundWasFree ==
  \A r \in Requests : kind[r] = "search" =>
    \A p \in shows[r] : \A d \in NightsIn(p, dates[r]) : owner[d] \notin before[r]

\* The pictures on a list or in a search result stay good, however long the
\* page is open and whatever the uploads of the host do: there is at least one,
\* each has its object, and an image shown as active or failed is still that.
PicturesLast ==
  \A r \in Requests : kind[r] \in Lists => \A p \in shows[r] :
    /\ kind[r] \in {"all", "search"} =>
         /\ \E f \in Images : seen[r][p][f] = "active"
         /\ \A f \in Images : seen[r][p][f] \in {"none", "active"}
    /\ \A f \in Images :
         /\ seen[r][p][f] \in {"active", "failed"} => status[p][f] = seen[r][p][f]
         /\ seen[r][p][f] = "active" => f \in bucket[p]

\* The calendar and the search tell the same story: when nothing was confirmed
\* between them, a property is found exactly if its calendar shows none of the
\* nights as taken, whichever of the two was asked first.
ReadsAgree ==
  \A q, r \in Requests :
    kind[q] = "days" /\ kind[r] = "search" /\ before[q] = before[r] =>
      \A p \in shows[q] \cap eligible[r] :
        p \in shows[r] <=> NightsIn(p, dates[r]) \cap takenDays[q] = {}

\* A calendar ages one way: it has every row of the property once, a day it
\* shows as taken is never given back, and one it shows as free can only be
\* gone to a booking confirmed after it.
CalendarsAge ==
  \A r \in Requests : kind[r] = "days" =>
    /\ freeDays[r] \cap takenDays[r] = {}
    /\ freeDays[r] \cup takenDays[r] = {d \in Rows : d[1] \in shows[r]}
    /\ \A d \in takenDays[r] : owner[d] # None
    /\ \A d \in freeDays[r] : owner[d] \notin before[r]

-----------------------------------------------------------------------------
(* The inductive invariant *)

\* Row d was taken when r was answered.
TakenThen(r, d) == owner[d] \in before[r]

\* Owners are confirmed, and no answer knows more than was confirmed.
Known ==
  /\ \A d \in Rows : owner[d] # None => owner[d] \in confirmed
  /\ \A r \in Requests : before[r] \subseteq confirmed

\* An answer, told from the tables of today.
SearchedThen ==
  \A r \in Requests : kind[r] = "search" =>
    /\ dates[r] \in Dates
    /\ shows[r] \subseteq eligible[r]
    /\ \A p \in eligible[r] :
         p \in shows[r] <=> \A d \in NightsIn(p, dates[r]) : ~TakenThen(r, d)

CalendarThen ==
  \A r \in Requests : kind[r] = "days" =>
    /\ takenDays[r] = {d \in Rows : d[1] \in shows[r] /\ TakenThen(r, d)}
    /\ freeDays[r] = {d \in Rows : d[1] \in shows[r] /\ ~TakenThen(r, d)}

\* Only listed properties have images, and active ones have their objects.
Stored ==
  \A p \in Properties, f \in Images :
    /\ status[p][f] # "none" => p \in listed
    /\ status[p][f] = "active" => f \in bucket[p]

IInv ==
  /\ TypeOK /\ Known /\ Stored
  /\ SearchedThen /\ CalendarThen /\ PicturesLast
=============================================================================
