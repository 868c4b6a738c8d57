------------------------------ MODULE Calendar ------------------------------
(***************************************************************************)
(* The dates of the system: the rows of property_availability and the      *)
(* stays a guest may ask for.                                              *)
(*                                                                         *)
(* A row of the table is named by its UNIQUE pair <<property, date>>.      *)
(* Inserting a property fires the trigger of migration 012, which writes   *)
(* one row for each date from the day of the insertion to Horizon days     *)
(* later; nothing adds or removes a row afterwards.  Dates are integers.   *)
(***************************************************************************)
EXTENDS Integers, FiniteSets

CONSTANTS
  Properties, \* properties on offer; Booking starts after they are inserted
  FirstDay,   \* FirstDay[p]: CURRENT_DATE when p was inserted
  Horizon,    \* days written after the first one, 90 in the migration
  Stays       \* what guests send: a property, two dates, and how they are spelt

ASSUME FirstDayAssumption == FirstDay \in [Properties -> Int]
ASSUME HorizonAssumption == Horizon \in Nat
\* A stay may have further fields: a payload is a string, and Postgres reads
\* several strings as one date or one UUID.
ASSUME StaysAssumption ==
  \A s \in Stays :
    s.property \in Properties /\ s.checkIn \in Int /\ s.checkOut \in Int

\* The rows the trigger has written.
Rows == UNION {{p} \X (FirstDay[p] .. FirstDay[p] + Horizon) : p \in Properties}

\* date BETWEEN check_in AND check_out takes both ends: the check-out date is
\* a date of the stay like any other.
Nights(s) == {s.property} \X (s.checkIn .. s.checkOut)

\* Two stays are the same to Postgres, however they are spelt.
SameSlot(s, t) ==
  s.property = t.property /\ s.checkIn = t.checkIn /\ s.checkOut = t.checkOut

\* Two stays meet when some date of one property belongs to both.
Overlap(s, t) == Nights(s) \cap Nights(t) # {}
=============================================================================
