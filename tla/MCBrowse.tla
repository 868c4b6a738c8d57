------------------------------ MODULE MCBrowse ------------------------------
(***************************************************************************)
(* Small instances of Browse for TLC: two properties of two hosts in one   *)
(* place, two stays that meet on the first one, and one without a night,   *)
(* which both Search and CreateBooking turn down.  The barn is listed with *)
(* two images, the loft with one that goes up without a failure.           *)
(***************************************************************************)
EXTENDS Browse, TLC

CONSTANTS barn, loft, here, there, i1, i2

MCProperties == {barn, loft}
MCFirstDay == [p \in MCProperties |-> 1]
Stay(p, from, to) == [property |-> p, checkIn |-> from, checkOut |-> to]
MCStays == {Stay(barn, 1, 2), Stay(barn, 2, 3), Stay(loft, 2, 2)}
MCHostOf == [p \in MCProperties |-> p]
MCMatches == [p \in MCProperties |-> {here}]
MCGalleries == {Images, {i1}}

Symmetry == Permutations(Requests) \cup Permutations(Bookings)

\* Which of the two galleries each property has, and what becomes of it.
MCNext ==
  /\ Next
  /\ status'[barn][i1] # "none" => status'[barn][i2] # "none"
  /\ status'[loft][i2] = "none"
  /\ status'[loft][i1] # "failed"
MCSpec == Init /\ [][MCNext]_vars
=============================================================================
