----------------------------- MODULE Reservation -----------------------------
(***************************************************************************)
(* What the booking service promises, with no lock, transaction or failure *)
(* in sight.  A reservation is made when every date of the stay is free.   *)
(* A confirmation takes, in one step, the dates of the stay that are still *)
(* free: the promise does not say that all of them are.  Until then, a     *)
(* reservation may be withdrawn: the service could not record it.          *)
(***************************************************************************)
EXTENDS Calendar

CONSTANTS
  Bookings, \* names for the rows of table bookings
  None      \* no stay, no owner

VARIABLES
  booked,    \* booked[b]: the stay reserved by b, or None
  confirmed, \* the bookings that are confirmed
  owner      \* owner[d]: the booking that took row d, or None

vars == <<booked, confirmed, owner>>

Init ==
  /\ booked = [b \in Bookings |-> None]
  /\ confirmed = {}
  /\ owner = [d \in Rows |-> None]

Reserve(b, s) ==
  /\ booked[b] = None
  /\ s.checkIn < s.checkOut
  /\ \A d \in Nights(s) : d \in Rows /\ owner[d] = None
  /\ booked' = [booked EXCEPT ![b] = s]
  /\ UNCHANGED <<confirmed, owner>>

Confirm(b) ==
  /\ booked[b] # None
  /\ b \notin confirmed
  /\ confirmed' = confirmed \cup {b}
  /\ owner' = [d \in Rows |->
                 IF d \in Nights(booked[b]) /\ owner[d] = None
                 THEN b ELSE owner[d]]
  /\ UNCHANGED booked

Withdraw(b) ==
  /\ booked[b] # None
  /\ b \notin confirmed
  /\ booked' = [booked EXCEPT ![b] = None]
  /\ UNCHANGED <<confirmed, owner>>

Next ==
  \E b \in Bookings :
    Confirm(b) \/ Withdraw(b) \/ \E s \in Stays : Reserve(b, s)

Spec == Init /\ [][Next]_vars
=============================================================================
