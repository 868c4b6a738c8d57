------------------------------ MODULE MCBooking ------------------------------
(***************************************************************************)
(* Small instances of Booking for TLC.  One property with three rows, and  *)
(* a longer and a shorter stay that meet on it; a cfg cannot hold records, *)
(* so the stays are built here from its numbers.                           *)
(***************************************************************************)
EXTENDS Booking, TLC

CONSTANTS house, r1, r2, r3, r4, u1, u2

MCProperties == {house}
MCFirstDay == [p \in MCProperties |-> 1]
Spelt(from, to, style) ==
  [property |-> house, checkIn |-> from, checkOut |-> to, written |-> style]
Stay(from, to) == Spelt(from, to, "2026-08-15")

\* Two stays that share date 2.
Meeting == {Stay(1, 2), Stay(2, 3)}

\* One stay, written with and without the zero of the month.
TwoSpellings == {Stay(1, 2), Spelt(1, 2, "2026-8-15")}

\* A stay that fits, in both spellings, and one without a night.
FitAndNot == TwoSpellings \cup {Stay(2, 2)}

\* One stay of two nights.
OneStay == {Stay(1, 2)}

\* Requests and users are interchangeable in the safety runs.
Symmetry == Permutations(Requests) \cup Permutations(Users)

\* The liveness run cannot use symmetry: to keep it small, r1 and r2 only
\* create, r3 and r4 only confirm.
Creators == {r1, r2}
RoleNext ==
  /\ Next
  /\ \A r \in Requests :
       IF r \in Creators THEN pc'[r] # "lock" ELSE pc'[r] # "set"
RoleSpec == Init /\ [][RoleNext]_vars /\ Fairness
=============================================================================
