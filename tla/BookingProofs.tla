---------------------------- MODULE BookingProofs ----------------------------
(***************************************************************************)
(* Proofs about Booking for every set of users, requests, properties and   *)
(* stays, every calendar and every horizon.                                *)
(*                                                                         *)
(* The safety theorems follow from the inductive invariant IInv.  None of  *)
(* them mentions a hold: the tables are right whatever Redis does.  The    *)
(* hold itself is a lock only under PromptSpec, and that is proved apart.  *)
(***************************************************************************)
EXTENDS Booking, FiniteSetTheorems, TLAPS

\* The HAVING clause counts what it should: as many free dates as the stay has
\* dates means that every date of the stay is a free row.
LEMMA InsertableDays ==
  ASSUME NEW s \in Stays, Insertable(s)
  PROVE  /\ s.checkIn < s.checkOut
         /\ \A d \in Nights(s) : d \in Rows /\ calendar[d] = None
<1> DEFINE from == s.checkIn
           to == s.checkOut
<1>1. from \in Int /\ to \in Int /\ from < to
  BY StaysAssumption DEF Insertable
<1>2. IsFiniteSet(from .. to) /\ Cardinality(from .. to) = to - from + 1
  BY <1>1, FS_Interval
<1>3. FreeDates(s) \subseteq from .. to
  BY DEF FreeDates
<1>4. FreeDates(s) = from .. to
  BY <1>2, <1>3, FS_Subset DEF Insertable
<1>5. ASSUME NEW d \in Nights(s)
      PROVE  d \in Rows /\ calendar[d] = None
  <2>1. PICK n \in from .. to : d = <<s.property, n>>
    BY DEF Nights
  <2>2. QED
    BY <1>4, <2>1 DEF FreeDates
<1>6. QED
  BY <1>1, <1>5

\* The service starts with empty tables and nobody inside it.
LEMMA InitInv == Init => IInv
BY NoneAssumption
   DEF Init, IInv, TypeOK, Arguments, Bookable, Transactions, Finished,
       TablesAgree, ConfirmedDaysTaken, OneConfirmationPerKey,
       Active, Creating, Holding, Confirming, Statuses

\* Every step of a handler or of its environment keeps the variables typed.
LEMMA TypeStep == TypeOK /\ Arguments /\ [Next]_vars => TypeOK'
<1> SUFFICES ASSUME TypeOK, Arguments, [Next]_vars PROVE TypeOK'
  OBVIOUS
<1> USE DEF TypeOK, Goto, redis, request, tables, tx,
            Active, Creating, Holding, Confirming, Replies, Statuses
<1>1. ASSUME NEW r \in Requests, Arrives(r) PROVE TypeOK'
  BY <1>1 DEF Arrives, CreateArrives, ConfirmArrives
<1>2. ASSUME NEW r \in Requests, SetHold(r) PROVE TypeOK'
  BY <1>2 DEF SetHold, Arguments
<1>3. ASSUME NEW r \in Requests, SetHoldErrs(r) PROVE TypeOK'
  BY <1>3 DEF SetHoldErrs, Arguments
<1>4. ASSUME NEW r \in Requests, ReadHolder(r) PROVE TypeOK'
  BY <1>4 DEF ReadHolder
<1>5. ASSUME NEW r \in Requests, InsertBooking(r) PROVE TypeOK'
  BY <1>5 DEF InsertBooking
<1>20. ASSUME NEW r \in Requests, SelectDates(r) PROVE TypeOK'
  BY <1>20 DEF SelectDates
<1>6. ASSUME NEW r \in Requests, InsertErrs(r) PROVE TypeOK'
  BY <1>6 DEF InsertErrs
<1>7. ASSUME NEW r \in Requests, ReleaseHold(r) PROVE TypeOK'
  BY <1>7 DEF ReleaseHold, NoHold
<1>21. ASSUME NEW r \in Requests, ReleaseErrs(r) PROVE TypeOK'
  BY <1>21 DEF ReleaseErrs, NoHold, Arguments
<1>8. ASSUME NEW r \in Requests, InsertKey(r) PROVE TypeOK'
  BY <1>8 DEF InsertKey
<1>9. ASSUME NEW r \in Requests, InsertKeyErrs(r) PROVE TypeOK'
  BY <1>9 DEF InsertKeyErrs
<1>10. ASSUME NEW r \in Requests, LockKey(r) PROVE TypeOK'
  BY <1>10 DEF LockKey
<1>11. ASSUME NEW r \in Requests, KeyFinalized(r) PROVE TypeOK'
  BY <1>11 DEF KeyFinalized
<1>12. ASSUME NEW r \in Requests, KeyMissing(r) PROVE TypeOK'
  BY <1>12 DEF KeyMissing
<1>13. ASSUME NEW r \in Requests, NEW d \in Rows, BlockDay(r, d) PROVE TypeOK'
  BY <1>13 DEF BlockDay
<1>14. ASSUME NEW r \in Requests, Commit(r) \/ CommitErrs(r) PROVE TypeOK'
  BY <1>14 DEF Commit, CommitErrs, Publish
<1>15. ASSUME NEW r \in Requests, TxFails(r) \/ Crash(r) PROVE TypeOK'
  BY <1>15 DEF TxFails, Crash
<1>16. ASSUME NEW r \in Requests, Enqueue(r) \/ EnqueueErrs(r) PROVE TypeOK'
  BY <1>16 DEF Enqueue, EnqueueErrs
<1>17. ASSUME NEW s \in Stays, HoldExpires(s) PROVE TypeOK'
  BY <1>17 DEF HoldExpires, NoHold
<1>18. CASE UNCHANGED vars
  BY <1>18 DEF vars
<1>19. QED
  BY <1>1, <1>2, <1>3, <1>4, <1>5, <1>6, <1>7, <1>8, <1>9, <1>10, <1>11,
     <1>12, <1>13, <1>14, <1>15, <1>16, <1>17, <1>18, <1>20, <1>21
     DEF Next, Step

-----------------------------------------------------------------------------
(* The invariant is inductive *)

\* The part of IInv that is not typing.
Rest ==
  /\ Arguments /\ Bookable /\ Transactions /\ Finished
  /\ TablesAgree /\ ConfirmedDaysTaken /\ OneConfirmationPerKey
  /\ \A r \in queue : pc[r] = "confirmed"

\* The steps on Redis and the end of a creation touch no table.
LEMMA HoldSteps ==
  ASSUME IInv, NEW r \in Requests,
         \/ SetHold(r) \/ SetHoldErrs(r) \/ ReadHolder(r)
         \/ ReleaseHold(r) \/ ReleaseErrs(r)
  PROVE  Rest'
<1> USE NoneAssumption
    DEF IInv, Rest, TypeOK, Arguments, Bookable, Transactions, Finished,
        TablesAgree, ConfirmedDaysTaken, OneConfirmationPerKey,
        Goto, request, tables, tx,
        Active, Creating, Holding, Confirming, Replies, Statuses
<1>1. CASE SetHold(r)
  BY <1>1 DEF SetHold
<1>2. CASE SetHoldErrs(r)
  BY <1>2 DEF SetHoldErrs
<1>3. CASE ReadHolder(r)
  BY <1>3 DEF ReadHolder
<1>4. CASE ReleaseHold(r)
  BY <1>4 DEF ReleaseHold
<1>5. CASE ReleaseErrs(r)
  BY <1>5 DEF ReleaseErrs
<1>6. QED
  BY <1>1, <1>2, <1>3, <1>4, <1>5

\* The snapshot of the INSERT lets a stay pass whose dates are all rows.
LEMMA SelectStep ==
  ASSUME IInv, NEW r \in Requests, SelectDates(r)
  PROVE  Rest'
<1> USE NoneAssumption
    DEF IInv, Rest, TypeOK, Goto, request, tables, tx,
        Active, Creating, Holding, Confirming, Replies, Statuses
<1>1. /\ pc[r] = "select" /\ stay[r] \in Stays
      /\ UNCHANGED <<booking, idem, calendar, queue, user, stay, key, todo, wrote>>
  BY DEF SelectDates, Arguments
<1>2. \/ pc' = [pc EXCEPT ![r] = "insert"] /\ Insertable(stay[r])
      \/ pc' = [pc EXCEPT ![r] = "release"]
  BY <1>1 DEF SelectDates
<1>3. Insertable(stay[r]) => \A d \in Nights(stay[r]) : d \in Rows
  BY <1>1, InsertableDays
<1>4. Arguments'
  BY <1>1, <1>2 DEF Arguments
<1>5. Bookable'
  BY <1>1, <1>2, <1>3 DEF Bookable
<1>6. Transactions'
  BY <1>1, <1>2 DEF Transactions
<1>7. Finished' /\ OneConfirmationPerKey'
  BY <1>1, <1>2 DEF Finished, OneConfirmationPerKey
<1>8. TablesAgree' /\ ConfirmedDaysTaken'
  BY <1>1 DEF TablesAgree, ConfirmedDaysTaken
<1>9. QED
  BY <1>1, <1>2, <1>4, <1>5, <1>6, <1>7, <1>8

\* A booking is inserted for a request that had none, with all its dates rows;
\* no transaction can be about it yet.
LEMMA InsertSteps ==
  ASSUME IInv, NEW r \in Requests, InsertBooking(r) \/ InsertErrs(r)
  PROVE  Rest'
<1> USE NoneAssumption
    DEF IInv, Rest, TypeOK, Goto, request, tables, tx,
        Active, Creating, Holding, Confirming, Replies, Statuses
<1>1. /\ pc[r] \in {"select", "insert"} /\ booking[r] = "absent"
      /\ UNCHANGED <<idem, calendar, queue, user, stay, key, todo, wrote>>
  BY DEF InsertBooking, InsertErrs, Arguments
<1>2. /\ pc' \in {[pc EXCEPT ![r] = "key"], [pc EXCEPT ![r] = "release"]}
      /\ \/ booking' = booking /\ pc'[r] = "release"
         \/ booking' = [booking EXCEPT ![r] = "pending"] /\ pc[r] = "insert"
  BY <1>1 DEF InsertBooking, InsertErrs
<1>4. Arguments'
  BY <1>1, <1>2 DEF Arguments
<1>5. Bookable'
  BY <1>1, <1>2 DEF Bookable
<1>6. Transactions'
  BY <1>1, <1>2 DEF Transactions
<1>7. Finished' /\ OneConfirmationPerKey'
  BY <1>1, <1>2 DEF Finished, OneConfirmationPerKey
<1>8. TablesAgree' /\ ConfirmedDaysTaken'
  BY <1>1, <1>2 DEF TablesAgree, ConfirmedDaysTaken, Arguments
<1>9. QED
  BY <1>1, <1>2, <1>4, <1>5, <1>6, <1>7, <1>8

\* The key is inserted once, for a booking that is there.
LEMMA KeySteps ==
  ASSUME IInv, NEW r \in Requests,
         InsertKey(r) \/ InsertKeyErrs(r)
  PROVE  Rest'
<1> USE NoneAssumption
    DEF IInv, Rest, TypeOK, Arguments, Bookable, Transactions, Finished,
        TablesAgree, ConfirmedDaysTaken, OneConfirmationPerKey,
        Goto, request, tables, tx,
        Active, Creating, Holding, Confirming, Replies, Statuses
<1>1. CASE InsertKey(r)
  BY <1>1 DEF InsertKey
<1>2. CASE InsertKeyErrs(r)
  BY <1>2 DEF InsertKeyErrs
<1>3. QED
  BY <1>1, <1>2

\* FOR UPDATE lets one transaction at a time past an open key.
LEMMA LockSteps ==
  ASSUME IInv, NEW r \in Requests,
         LockKey(r) \/ KeyFinalized(r) \/ KeyMissing(r)
  PROVE  Rest'
<1> USE NoneAssumption
    DEF IInv, Rest, TypeOK, Arguments, Bookable, Transactions, Finished,
        TablesAgree, ConfirmedDaysTaken, OneConfirmationPerKey,
        Goto, request, tables, tx,
        Active, Creating, Holding, Confirming, Replies, Statuses
<1>1. CASE LockKey(r)
  BY <1>1 DEF LockKey, KeyLocked, Finalized
<1>2. CASE KeyFinalized(r)
  BY <1>2 DEF KeyFinalized, Finalized
<1>3. CASE KeyMissing(r)
  BY <1>3 DEF KeyMissing
<1>4. QED
  BY <1>1, <1>2, <1>3

\* A row is written when it is free and nobody else wrote it, and passed over
\* when it is taken.
LEMMA BlockStep ==
  ASSUME IInv, NEW r \in Requests, NEW d \in Rows, BlockDay(r, d)
  PROVE  Rest'
<1> USE DEF IInv, Rest, TypeOK, request, tables
<1>1. /\ pc[r] = "block" /\ d \in todo[r]
      /\ \A q \in Requests \ {r} : d \notin wrote[q]
      /\ todo' = [todo EXCEPT ![r] = @ \ {d}]
      /\ UNCHANGED <<queue, pc, user, stay, key, booking, idem, calendar>>
  BY DEF BlockDay, RowLocked
<1>2. \/ calendar[d] = None /\ wrote' = [wrote EXCEPT ![r] = @ \cup {d}]
      \/ calendar[d] # None /\ wrote' = wrote
  BY DEF BlockDay, DayFree
<1>3. d \in Nights(stay[key[r]])
  BY <1>1 DEF Transactions
<1>4. Transactions'
  BY <1>1, <1>2, <1>3 DEF Transactions
<1>5. QED
  BY <1>1, <1>4 DEF Arguments, Bookable, Finished, TablesAgree,
                     ConfirmedDaysTaken, OneConfirmationPerKey

\* What is published agrees with the tables and with the transactions left open.
LEMMA CommitSteps ==
  ASSUME IInv, NEW r \in Requests,
         Commit(r) \/ CommitErrs(r)
  PROVE  Rest'
<1> USE NoneAssumption
    DEF IInv, Rest, TypeOK, Arguments, Bookable, Transactions, Finished,
        TablesAgree, ConfirmedDaysTaken, OneConfirmationPerKey,
        Goto, request, tables, tx,
        Active, Creating, Holding, Confirming, Replies, Statuses
<1>1. CASE Commit(r)
  BY <1>1 DEF Commit, Publish
<1>2. CASE CommitErrs(r)
  BY <1>2 DEF CommitErrs, Publish
<1>3. QED
  BY <1>1, <1>2

\* Rollbacks, crashes and the enqueueing leave the tables alone.
LEMMA EndSteps ==
  ASSUME IInv, NEW r \in Requests,
         TxFails(r) \/ Crash(r) \/ Enqueue(r) \/ EnqueueErrs(r)
  PROVE  Rest'
<1> USE NoneAssumption
    DEF IInv, Rest, TypeOK, Arguments, Bookable, Transactions, Finished,
        TablesAgree, ConfirmedDaysTaken, OneConfirmationPerKey,
        Goto, request, tables, tx,
        Active, Creating, Holding, Confirming, Replies, Statuses
<1>1. CASE TxFails(r)
  BY <1>1 DEF TxFails
<1>2. CASE Crash(r)
  BY <1>2 DEF Crash
<1>3. CASE Enqueue(r)
  BY <1>3 DEF Enqueue
<1>4. CASE EnqueueErrs(r)
  BY <1>4 DEF EnqueueErrs
<1>5. QED
  BY <1>1, <1>2, <1>3, <1>4

\* A request that arrives has no booking yet, so the stay it brings changes
\* none that is booked.
LEMMA ArrivalSteps ==
  ASSUME IInv, NEW r \in Requests, Arrives(r)
  PROVE  Rest'
<1> USE NoneAssumption
    DEF IInv, Rest, TypeOK, Goto, request, tables, tx,
        Active, Creating, Holding, Confirming, Replies, Statuses
<1>1. /\ pc[r] = "idle" /\ booking[r] = "absent" /\ idem[r] = "absent"
      /\ UNCHANGED <<booking, idem, calendar, queue, todo, wrote>>
  BY DEF Arrives, CreateArrives, ConfirmArrives, Arguments
<1>2. \A q \in Requests : key[q] # None => key[q] # r
  BY <1>1 DEF Arguments
<1>3. CASE \E u \in Users, s \in Stays : CreateArrives(r, u, s)
  <2>1. PICK u \in Users, s \in Stays : CreateArrives(r, u, s)
    BY <1>3
  <2>2. Arguments'
    BY <1>1, <2>1 DEF CreateArrives, Arguments
  <2>3. Bookable' /\ TablesAgree' /\ ConfirmedDaysTaken'
    BY <1>1, <2>1 DEF CreateArrives, Bookable, TablesAgree, ConfirmedDaysTaken
  <2>4. Transactions'
    BY <1>1, <1>2, <2>1 DEF CreateArrives, Transactions
  <2>5. Finished' /\ OneConfirmationPerKey'
    BY <1>1, <2>1 DEF CreateArrives, Finished, OneConfirmationPerKey
  <2>6. QED
    BY <1>1, <2>1, <2>2, <2>3, <2>4, <2>5 DEF CreateArrives
<1>4. CASE \E u \in Users, k \in Requests \cup {None} : ConfirmArrives(r, u, k)
  <2>1. PICK u \in Users, k \in Requests \cup {None} : ConfirmArrives(r, u, k)
    BY <1>4
  <2>2. Arguments'
    BY <1>1, <2>1 DEF ConfirmArrives, Arguments, KnownKeys
  <2>3. Bookable' /\ TablesAgree' /\ ConfirmedDaysTaken'
    BY <1>1, <2>1 DEF ConfirmArrives, Bookable, TablesAgree, ConfirmedDaysTaken
  <2>4. Transactions'
    BY <1>1, <2>1 DEF ConfirmArrives, Transactions
  <2>5. Finished' /\ OneConfirmationPerKey'
    BY <1>1, <2>1 DEF ConfirmArrives, Finished, OneConfirmationPerKey
  <2>6. QED
    BY <1>1, <2>1, <2>2, <2>3, <2>4, <2>5 DEF ConfirmArrives
<1>5. QED
  BY <1>3, <1>4 DEF Arrives

\* IInv is inductive.
LEMMA StepInv == IInv /\ [Next]_vars => IInv'
<1> SUFFICES ASSUME IInv, [Next]_vars PROVE IInv'
  OBVIOUS
<1>1. TypeOK'
  BY TypeStep DEF IInv
<1>2. ASSUME NEW r \in Requests, Step(r) PROVE Rest'
  BY <1>2, HoldSteps, SelectStep, InsertSteps, KeySteps, LockSteps, BlockStep, CommitSteps,
     EndSteps DEF Step
<1>3. ASSUME NEW r \in Requests, Arrives(r) \/ TxFails(r) \/ Crash(r)
      PROVE  Rest'
  BY <1>3, ArrivalSteps, EndSteps
<1>4. ASSUME NEW s \in Stays, HoldExpires(s) PROVE Rest'
  BY <1>4 DEF HoldExpires, request, tables, tx, IInv, Rest, Arguments, Bookable,
     Transactions, Finished, TablesAgree, ConfirmedDaysTaken,
     OneConfirmationPerKey
<1>5. ASSUME UNCHANGED vars PROVE Rest'
  BY <1>5 DEF vars, IInv, Rest, Arguments, Bookable, Transactions, Finished,
     TablesAgree, ConfirmedDaysTaken, OneConfirmationPerKey
<1>6. Rest'
  BY <1>2, <1>3, <1>4, <1>5 DEF Next, vars
<1>7. QED
  BY <1>1, <1>6 DEF IInv, Rest

\* Between any two calls to Postgres and Redis, what the tables, the holds and
\* the open transactions say of each other (IInv) is true.
THEOREM Inductive == Spec => []IInv
BY InitInv, StepInv, PTL DEF Spec

-----------------------------------------------------------------------------
(* Safety *)

\* Type correctness.
THEOREM TypeCorrect == Spec => []TypeOK
<1>1. IInv => TypeOK
  BY DEF IInv
<1>2. QED
  BY <1>1, Inductive, PTL

\* The tables agree after any interleaving of transactions, failures and
\* crashes: one confirmation changes all three of them or none.
THEOREM TablesConsistent == Spec => []TablesAgree
<1>1. IInv => TablesAgree
  BY DEF IInv
<1>2. QED
  BY <1>1, Inductive, PTL

\* A confirmed stay is off the market on all its dates, for any calendar and
\* any stays: the HAVING clause and the row by row UPDATE are enough.
THEOREM DaysTaken == Spec => []ConfirmedDaysTaken
<1>1. IInv => ConfirmedDaysTaken
  BY DEF IInv
<1>2. QED
  BY <1>1, Inductive, PTL

\* However many duplicates of a confirmation race, one of them commits and is
\* answered.
THEOREM SingleConfirmation == Spec => []OneConfirmationPerKey
<1>1. IInv => OneConfirmationPerKey
  BY DEF IInv
<1>2. QED
  BY <1>1, Inductive, PTL

\* Replies and tasks tell the truth about the tables.
THEOREM AnswersTrue == Spec => []AnswersAreTrue
<1>1. ASSUME IInv PROVE AnswersAreTrue
  <2>1. ASSUME NEW r \in Requests
        PROVE  pc[r] = "created" => booking[r] # "absent" /\ idem[r] # "absent"
    BY <1>1 DEF IInv, Arguments
  <2>2. ASSUME NEW r \in Requests, pc[r] \in {"already", "confirmed"}
        PROVE  booking[key[r]] = "confirmed"
    <3>1. key[r] \in Requests /\ idem[key[r]] = "finalized"
      BY <1>1, <2>2 DEF IInv, Finished, TypeOK
    <3>2. QED
      BY <1>1, <3>1 DEF IInv, TablesAgree
  <2>3. \A r \in queue : pc[r] = "confirmed"
    BY <1>1 DEF IInv
  <2>4. QED
    BY <2>1, <2>2, <2>3 DEF AnswersAreTrue
<1>2. QED
  BY <1>1, Inductive, PTL

\* No step takes a date from its booking, opens a finalized key again, removes
\* a booking or moves one out of "confirmed".
THEOREM ConfirmationsLast == Spec => NeverUndone
<1>1. ASSUME IInv, [Next]_vars PROVE [NothingUndone]_vars
  <2> USE DEF IInv, TypeOK, NothingUndone, tables
  <2>1. ASSUME NEW r \in Requests, InsertBooking(r) \/ InsertErrs(r)
        PROVE  NothingUndone
    BY <1>1, <2>1 DEF InsertBooking, InsertErrs, Arguments
  <2>2. ASSUME NEW r \in Requests, InsertKey(r) \/ InsertKeyErrs(r)
        PROVE  NothingUndone
    BY <1>1, <2>2 DEF InsertKey, InsertKeyErrs, Arguments
  <2>3. ASSUME NEW r \in Requests, Commit(r) \/ CommitErrs(r)
        PROVE  NothingUndone
    BY <1>1, <2>3 DEF Commit, CommitErrs, Publish, Transactions
  <2>4. ASSUME UNCHANGED tables PROVE NothingUndone
    BY <2>4
  <2>5. ASSUME NEW r \in Requests,
               Arrives(r) \/ TxFails(r) \/ Crash(r) \/ Step(r)
        PROVE  NothingUndone
    <3>1. CASE Step(r)
      BY <3>1, <2>1, <2>2, <2>3, <2>4
         DEF Step, SetHold, SetHoldErrs, ReadHolder, SelectDates, ReleaseHold,
             ReleaseErrs, LockKey, KeyFinalized, KeyMissing, BlockDay, Enqueue,
             EnqueueErrs
    <3>2. CASE Arrives(r) \/ TxFails(r) \/ Crash(r)
      BY <3>2, <2>4 DEF Arrives, CreateArrives, ConfirmArrives, TxFails, Crash
    <3>3. QED
      BY <2>5, <3>1, <3>2
  <2>6. ASSUME NEW s \in Stays, HoldExpires(s) PROVE NothingUndone
    BY <2>6, <2>4 DEF HoldExpires
  <2>7. QED
    BY <1>1, <2>5, <2>6 DEF Next
<1>2. QED
  BY <1>1, Inductive, PTL DEF Spec, NeverUndone

-----------------------------------------------------------------------------
(* Refinement *)

\* The snapshot of an INSERT that accepts the stay is Reserve, the failure or
\* the crash that keeps the row out Withdraw, COMMIT is Confirm, and every other
\* step, the end of the INSERT included, is a stutter.
THEOREM Refines == Spec => ImplementsReservation
<1> DEFINE Booked == [r \in Requests |->
                        IF booking[r] = "absent" /\ pc[r] # "insert"
                        THEN None ELSE stay[r]]
           Confirmed == {r \in Requests : booking[r] = "confirmed"}
<1>1. Init => R!Init
  BY DEF Init, R!Init, Rows, R!Rows
<1>2. ASSUME IInv, [Next]_vars PROVE [R!Next]_(R!vars)
  <2> USE <1>2 DEF IInv, TypeOK
  <2>1. ASSUME NEW r \in Requests, SelectDates(r), Insertable(stay[r])
        PROVE  R!Next
    <3>0. PICK s \in Stays : s = stay[r]
      BY <2>1 DEF SelectDates, Arguments, Creating, Holding
    <3>1. /\ pc[r] = "select" /\ booking[r] = "absent" /\ stay[r] = s
          /\ Insertable(s)
          /\ pc' = [pc EXCEPT ![r] = "insert"]
          /\ UNCHANGED <<booking, stay, calendar>>
      BY <2>1, <3>0 DEF SelectDates, Arguments, Goto, request, tables
    <3>2. /\ Booked[r] = None
          /\ Booked' = [Booked EXCEPT ![r] = s]
          /\ Confirmed' = Confirmed
      BY <3>1
    <3>3. R!Reserve(r, s)
      BY <3>1, <3>2, InsertableDays
         DEF R!Reserve, Rows, R!Rows, Nights, R!Nights
    <3>4. QED
      BY <3>1, <3>3 DEF R!Next
  <2>10. ASSUME NEW r \in Requests, pc[r] = "insert",
                NEW where \in {"release", "crashed"},
                pc' = [pc EXCEPT ![r] = where],
                UNCHANGED <<booking, stay, calendar>>
         PROVE  R!Next
    <3>1. /\ booking[r] = "absent" /\ stay[r] \in Stays /\ stay[r] # None
      BY <2>10, NoneAssumption DEF Arguments, Bookable
    <3>2. /\ Booked[r] # None
          /\ r \notin Confirmed
          /\ Booked' = [Booked EXCEPT ![r] = None]
          /\ UNCHANGED <<Confirmed, calendar>>
      BY <2>10, <3>1
    <3>3. QED
      BY <3>2 DEF R!Next, R!Withdraw
  <2>2. ASSUME NEW r \in Requests, Commit(r) \/ CommitErrs(r)
        PROVE  R!Next
    <3>0. PICK k \in Requests : k = key[r]
      BY <2>2 DEF Commit, CommitErrs, Publish, Transactions
    <3>1. /\ pc[r] = "block" /\ todo[r] = {}
          /\ booking' = [booking EXCEPT ![k] = "confirmed"]
          /\ calendar' = [d \in Rows |->
                            IF d \in wrote[r] THEN k ELSE calendar[d]]
          /\ stay' = stay
          /\ \A b \in Requests : pc'[b] = "insert" <=> pc[b] = "insert"
      BY <2>2, <3>0 DEF Commit, CommitErrs, Publish, Goto, request
    <3>2. idem[k] = "open" /\ booking[k] # "absent"
      BY <3>0, <3>1 DEF Transactions, Arguments
    <3>3. booking[k] # "confirmed" /\ stay[k] \in Stays
      BY <3>2 DEF TablesAgree, Bookable
    <3>4. \A d \in Rows :
            d \in wrote[r] <=> d \in Nights(stay[k]) /\ calendar[d] = None
      BY <3>0, <3>1 DEF Transactions
    <3>5. /\ Booked[k] = stay[k] /\ stay[k] # None
          /\ Booked' = Booked
          /\ k \notin Confirmed /\ Confirmed' = Confirmed \cup {k}
      BY <3>1, <3>2, <3>3, NoneAssumption
    <3>6. calendar' = [d \in Rows |->
                         IF d \in Nights(Booked[k]) /\ calendar[d] = None
                         THEN k ELSE calendar[d]]
      BY <3>1, <3>4, <3>5
    <3>7. R!Confirm(k)
      BY <3>5, <3>6 DEF R!Confirm, Rows, R!Rows, Nights, R!Nights
    <3>8. QED
      BY <3>7 DEF R!Next
  <2>3. ASSUME UNCHANGED <<booking, calendar>>,
               \A b \in Requests : pc'[b] = "insert" <=> pc[b] = "insert",
               \A b \in Requests :
                 booking[b] # "absent" \/ pc[b] = "insert" => stay'[b] = stay[b]
        PROVE  UNCHANGED R!vars
    BY <2>3 DEF R!vars
  <2>4. ASSUME NEW r \in Requests, Arrives(r) PROVE UNCHANGED R!vars
    BY <2>3, <2>4 DEF Arrives, CreateArrives, ConfirmArrives, Arguments, Goto,
                      tables
  <2>5. ASSUME NEW r \in Requests, TxFails(r) \/ Crash(r)
        PROVE  [R!Next]_(R!vars)
    <3>1. CASE pc[r] = "insert"
      BY <2>5, <2>10, <3>1 DEF TxFails, Crash, Goto, tables, request
    <3>2. CASE pc[r] # "insert"
      BY <2>3, <2>5, <3>2 DEF TxFails, Crash, Goto, tables, request
    <3>3. QED
      BY <3>1, <3>2
  <2>11. ASSUME NEW r \in Requests, InsertBooking(r) \/ InsertErrs(r)
         PROVE  [R!Next]_(R!vars)
    <3>1. CASE booking' = booking /\ pc[r] = "insert"
      BY <2>10, <2>11, <3>1 DEF InsertBooking, InsertErrs, Arguments, Goto, request
    <3>2. CASE booking' = booking /\ pc[r] = "select"
      BY <2>3, <2>11, <3>2 DEF InsertBooking, InsertErrs, Goto, request
    <3>3. CASE /\ booking' = [booking EXCEPT ![r] = "pending"]
               /\ pc[r] = "insert"
      <4>1. /\ booking[r] = "absent" /\ UNCHANGED <<stay, calendar>>
            /\ \/ pc' = [pc EXCEPT ![r] = "key"]
               \/ pc' = [pc EXCEPT ![r] = "release"]
        BY <2>11, <3>3 DEF InsertBooking, InsertErrs, Arguments, Goto, request
      <4>2. Booked' = Booked /\ Confirmed' = Confirmed
        BY <3>3, <4>1
      <4>3. QED
        BY <4>1, <4>2 DEF R!vars
    <3>4. QED
      BY <2>11, <3>1, <3>2, <3>3 DEF InsertBooking, InsertErrs
  <2>6. ASSUME NEW r \in Requests, Step(r) PROVE [R!Next]_(R!vars)
    <3>1. CASE InsertBooking(r) \/ InsertErrs(r)
      BY <2>11, <3>1
    <3>6. CASE SelectDates(r)
      <4>1. CASE Insertable(stay[r])
        BY <2>1, <3>6, <4>1
      <4>2. CASE ~Insertable(stay[r])
        BY <2>3, <3>6, <4>2 DEF SelectDates, Goto, tables, request
      <4>3. QED
        BY <4>1, <4>2
    <3>2. CASE Commit(r) \/ CommitErrs(r)
      BY <2>2, <3>2
    <3>3. CASE \/ SetHold(r) \/ SetHoldErrs(r) \/ ReadHolder(r)
               \/ ReleaseHold(r) \/ ReleaseErrs(r)
      BY <2>3, <3>3 DEF SetHold, SetHoldErrs, ReadHolder, ReleaseHold,
                        ReleaseErrs, Goto, tables, request
    <3>7. CASE InsertKey(r) \/ InsertKeyErrs(r)
      BY <2>3, <3>7 DEF InsertKey, InsertKeyErrs, Goto, tables, request
    <3>4. CASE \/ LockKey(r) \/ KeyFinalized(r) \/ KeyMissing(r)
               \/ Enqueue(r) \/ EnqueueErrs(r)
      BY <2>3, <3>4 DEF LockKey, KeyFinalized, KeyMissing, Enqueue, EnqueueErrs,
                        Goto, tables, request
    <3>8. CASE \E d \in Rows : BlockDay(r, d)
      BY <2>3, <3>8 DEF BlockDay, tables, request
    <3>5. QED
      BY <2>6, <3>1, <3>2, <3>3, <3>4, <3>6, <3>7, <3>8 DEF Step
  <2>7. ASSUME NEW s \in Stays, HoldExpires(s) PROVE UNCHANGED R!vars
    BY <2>3, <2>7 DEF HoldExpires, tables, request
  <2>8. CASE UNCHANGED vars
    BY <2>3, <2>8 DEF vars
  <2>9. QED
    BY <2>4, <2>5, <2>6, <2>7, <2>8 DEF Next
<1>3. QED
  BY <1>1, <1>2, Inductive, PTL DEF Spec, R!Spec, ImplementsReservation

-----------------------------------------------------------------------------
(* The hold as a lock *)

\* If every CreateBooking ends within the minute of its hold, the holds are
\* locks on spellings of stays: two requests that spell a stay alike are never
\* at work together, and none of them deletes the hold of another.  Nothing
\* follows for two spellings of one stay.
THEOREM HoldExcludes == PromptSpec => []HoldIsLock
<1>1. Init => HoldIsLock
  BY DEF Init, HoldIsLock, Holding
<1>2. ASSUME IInv, HoldIsLock, [PromptNext]_vars PROVE HoldIsLock'
  <2> USE NoneAssumption
      DEF IInv, TypeOK, HoldIsLock, Goto, redis, request, Holding, Creating
  <2>1. \A r \in Requests : pc[r] \in Holding => hold[stay[r]] # None
    BY <1>2 DEF Arguments
  <2>2. ASSUME NEW r \in Requests, SetHold(r) PROVE HoldIsLock'
    BY <1>2, <2>1, <2>2 DEF SetHold, Arguments
  <2>3. ASSUME NEW r \in Requests, SetHoldErrs(r) PROVE HoldIsLock'
    BY <1>2, <2>1, <2>3 DEF SetHoldErrs, Arguments
  <2>4. ASSUME NEW r \in Requests, ReleaseHold(r) PROVE HoldIsLock'
    BY <1>2, <2>4 DEF ReleaseHold, NoHold, Arguments
  <2>11. ASSUME NEW r \in Requests, ReleaseErrs(r) PROVE HoldIsLock'
    <3>1. CASE NoHold(stay[r])
      BY <1>2, <2>11, <3>1 DEF ReleaseErrs, NoHold, Arguments
    <3>2. CASE UNCHANGED hold
      BY <1>2, <2>11, <3>2 DEF ReleaseErrs
    <3>3. QED
      BY <2>11, <3>1, <3>2 DEF ReleaseErrs
  <2>5. ASSUME NEW s \in Stays, HoldExpires(s) PROVE HoldIsLock'
    <3>1. NoCreator(s)
      BY <1>2, <2>5 DEF PromptNext, HoldExpires, NoHold, vars
    <3>2. QED
      BY <1>2, <2>5, <3>1 DEF HoldExpires, NoHold, NoCreator, Arguments
  <2>6. ASSUME NEW r \in Requests, Arrives(r) PROVE HoldIsLock'
    BY <1>2, <2>6 DEF Arrives, CreateArrives, ConfirmArrives
  <2>7. ASSUME NEW r \in Requests,
               UNCHANGED <<hold, user, stay>>,
               \E where \in {"holder", "insert", "release", "key", "failed", "created",
                             "in_progress", "held", "already", "crashed",
                             "block", "enqueue", "confirmed"} :
                 /\ pc' = [pc EXCEPT ![r] = where]
                 /\ where \in Holding => pc[r] \in Holding
        PROVE  HoldIsLock'
    BY <1>2, <2>7
  <2>8. ASSUME NEW r \in Requests, Step(r) \/ TxFails(r) \/ Crash(r)
        PROVE  HoldIsLock'
    <3>1. CASE SetHold(r) \/ SetHoldErrs(r) \/ ReleaseHold(r) \/ ReleaseErrs(r)
      BY <2>2, <2>3, <2>4, <2>11, <3>1
    <3>2. CASE ReadHolder(r)
      BY <2>7, <3>2 DEF ReadHolder
    <3>3. CASE SelectDates(r) \/ InsertBooking(r) \/ InsertErrs(r)
      BY <2>7, <3>3 DEF SelectDates, InsertBooking, InsertErrs
    <3>4. CASE InsertKey(r) \/ InsertKeyErrs(r)
      BY <2>7, <3>4 DEF InsertKey, InsertKeyErrs
    <3>5. CASE LockKey(r) \/ KeyFinalized(r) \/ KeyMissing(r)
      BY <2>7, <3>5 DEF LockKey, KeyFinalized, KeyMissing
    <3>6. CASE \E d \in Rows : BlockDay(r, d)
      BY <1>2, <3>6 DEF BlockDay
    <3>7. CASE Commit(r) \/ CommitErrs(r)
      BY <2>7, <3>7 DEF Commit, CommitErrs
    <3>8. CASE Enqueue(r) \/ EnqueueErrs(r)
      BY <2>7, <3>8 DEF Enqueue, EnqueueErrs
    <3>9. CASE TxFails(r) \/ Crash(r)
      BY <2>7, <3>9 DEF TxFails, Crash
    <3>10. QED
      BY <2>8, <3>1, <3>2, <3>3, <3>4, <3>5, <3>6, <3>7, <3>8, <3>9 DEF Step
  <2>9. CASE UNCHANGED vars
    BY <1>2, <2>9 DEF vars
  <2>10. QED
    BY <1>2, <2>5, <2>6, <2>8, <2>9 DEF PromptNext, Next
<1>3. [PromptNext]_vars => [Next]_vars
  BY DEF PromptNext
<1>4. QED
  BY <1>1, <1>2, <1>3, InitInv, StepInv, PTL DEF PromptSpec

\* Whatever expires, fails or crashes meanwhile, a hold that no error of Redis
\* left behind has a request of its user behind it, which is at work on the
\* stay, has booked it or died: no refused creation leaves a hold.
THEOREM HoldsHaveReasons == Spec => []HoldsAreMeant
<1> DEFINE Behind(s, r) ==
             /\ stay[r] = s
             /\ user[r] = hold[s]
             /\ pc[r] \in Holding \cup {"crashed"} \/ booking[r] # "absent"
           Meant(s) ==
             hold[s] # None => s \in lost \/ \E r \in Requests : Behind(s, r)
<1>1. Init => HoldsAreMeant
  BY DEF Init, HoldsAreMeant
<1>2. ASSUME IInv, HoldsAreMeant, [Next]_vars, NEW s \in Stays PROVE Meant(s)'
  <2> USE NoneAssumption DEF IInv, TypeOK, Goto, redis, request, tables
  <2>0. Meant(s)
    BY <1>2 DEF HoldsAreMeant
  <2>1. ASSUME NEW q \in Requests,
               hold'[s] = hold[s], s \in lost => s \in lost',
               \A r \in Requests : booking[r] # "absent" => booking'[r] # "absent",
               \A r \in Requests \ {q} :
                 pc'[r] = pc[r] /\ user'[r] = user[r] /\ stay'[r] = stay[r],
               Behind(s, q) => s \in lost' \/ Behind(s, q)'
        PROVE  Meant(s)'
    <3>1. ASSUME NEW r \in Requests, Behind(s, r), r # q PROVE Behind(s, r)'
      BY <2>1, <3>1
    <3>2. QED
      BY <2>0, <2>1, <3>1
  <2>2. ASSUME NEW q \in Requests,
               hold'[s] = hold[s], s \in lost => s \in lost',
               UNCHANGED <<booking, user, stay>>,
               NEW where, pc' = [pc EXCEPT ![q] = where],
               \/ where \in Holding \cup {"crashed"}
               \/ pc[q] \notin Holding \cup {"crashed"}
               \/ booking[q] # "absent"
        PROVE  Meant(s)'
    BY <1>2, <2>1, <2>2
  <2>3. ASSUME NEW q \in Requests, SetHold(q) PROVE Meant(s)'
    <3>1. CASE hold[stay[q]] = None /\ stay[q] = s
      BY <1>2, <2>3, <3>1 DEF SetHold, Holding
    <3>2. CASE hold[stay[q]] # None \/ stay[q] # s
      BY <1>2, <2>2, <2>3, <3>2 DEF SetHold, Holding
    <3>3. QED
      BY <3>1, <3>2
  <2>4. ASSUME NEW q \in Requests, SetHoldErrs(q) PROVE Meant(s)'
    <3>1. CASE s \in lost'
      BY <3>1
    <3>2. CASE s \notin lost'
      BY <1>2, <2>2, <2>4, <3>2 DEF SetHoldErrs, Holding
    <3>3. QED
      BY <3>1, <3>2
  <2>5. ASSUME NEW q \in Requests, ReadHolder(q) PROVE Meant(s)'
    BY <1>2, <2>2, <2>5 DEF ReadHolder, Holding
  <2>6. ASSUME NEW q \in Requests, SelectDates(q) PROVE Meant(s)'
    BY <1>2, <2>2, <2>6 DEF SelectDates, Holding
  <2>7. ASSUME NEW q \in Requests, InsertBooking(q) \/ InsertErrs(q)
        PROVE  Meant(s)'
    BY <1>2, <2>1, <2>7 DEF InsertBooking, InsertErrs, Holding
  <2>8. ASSUME NEW q \in Requests, ReleaseHold(q) \/ ReleaseErrs(q)
        PROVE  Meant(s)'
    <3>1. CASE s \in lost' \/ hold'[s] = None
      BY <3>1
    <3>2. CASE s \notin lost' /\ hold'[s] # None
      <4>1. /\ stay[q] # s /\ hold'[s] = hold[s] /\ s \notin lost
            /\ pc' = [pc EXCEPT ![q] = "failed"]
            /\ UNCHANGED <<booking, user, stay>>
        BY <1>2, <2>8, <3>2 DEF ReleaseHold, ReleaseErrs, NoHold, Arguments,
           Creating, Holding
      <4>2. QED
        BY <1>2, <2>1, <4>1
    <3>3. QED
      BY <3>1, <3>2
  <2>9. ASSUME NEW q \in Requests, InsertKey(q) \/ InsertKeyErrs(q)
        PROVE  Meant(s)'
    BY <1>2, <2>2, <2>9 DEF InsertKey, InsertKeyErrs, Arguments
  <2>10. ASSUME NEW q \in Requests,
                LockKey(q) \/ KeyFinalized(q) \/ KeyMissing(q)
         PROVE  Meant(s)'
    BY <1>2, <2>2, <2>10 DEF LockKey, KeyFinalized, KeyMissing, Holding
  <2>11. ASSUME NEW q \in Requests, NEW d \in Rows, BlockDay(q, d)
         PROVE  Meant(s)'
    BY <1>2, <2>0, <2>11 DEF BlockDay
  <2>12. ASSUME NEW q \in Requests, Commit(q) \/ CommitErrs(q)
         PROVE  Meant(s)'
    <3>1. /\ pc[q] = "block" /\ key[q] \in Requests
          /\ booking' = [booking EXCEPT ![key[q]] = "confirmed"]
          /\ \/ pc' = [pc EXCEPT ![q] = "enqueue"]
             \/ pc' = [pc EXCEPT ![q] = "failed"]
          /\ UNCHANGED <<hold, lost, user, stay>>
      BY <1>2, <2>12 DEF Commit, CommitErrs, Publish, Transactions
    <3>2. \A r \in Requests : booking[r] # "absent" => booking'[r] # "absent"
      BY <1>2, <3>1
    <3>3. Behind(s, q) => Behind(s, q)'
      BY <1>2, <3>1, <3>2 DEF Holding
    <3>4. QED
      BY <1>2, <2>1, <3>1, <3>2, <3>3
  <2>13. ASSUME NEW q \in Requests, Enqueue(q) \/ EnqueueErrs(q)
         PROVE  Meant(s)'
    BY <1>2, <2>2, <2>13 DEF Enqueue, EnqueueErrs, Holding
  <2>14. ASSUME NEW q \in Requests, TxFails(q) \/ Crash(q) PROVE Meant(s)'
    BY <1>2, <2>2, <2>14 DEF TxFails, Crash, Holding
  <2>15. ASSUME NEW q \in Requests, Arrives(q) PROVE Meant(s)'
    <3>1. /\ ~Behind(s, q)
          /\ UNCHANGED <<hold, lost, booking>>
          /\ \A r \in Requests \ {q} :
               pc'[r] = pc[r] /\ user'[r] = user[r] /\ stay'[r] = stay[r]
      BY <1>2, <2>15 DEF Arrives, CreateArrives, ConfirmArrives, Arguments, Holding
    <3>2. QED
      BY <2>1, <3>1
  <2>16. ASSUME NEW u \in Stays, HoldExpires(u) PROVE Meant(s)'
    <3>1. CASE u = s
      BY <1>2, <2>16, <3>1 DEF HoldExpires, NoHold
    <3>2. CASE u # s
      BY <1>2, <2>0, <2>16, <3>2 DEF HoldExpires, NoHold
    <3>3. QED
      BY <3>1, <3>2
  <2>17. CASE UNCHANGED vars
    BY <2>0, <2>17 DEF vars
  <2>18. QED
    BY <1>2, <2>3, <2>4, <2>5, <2>6, <2>7, <2>8, <2>9, <2>10, <2>11, <2>12,
       <2>13, <2>14, <2>15, <2>16, <2>17 DEF Next, Step
<1>3. ASSUME IInv, HoldsAreMeant, [Next]_vars PROVE HoldsAreMeant'
  BY <1>2, <1>3 DEF HoldsAreMeant
<1>4. QED
  BY <1>1, <1>3, InitInv, StepInv, PTL DEF Spec

-----------------------------------------------------------------------------
(* Double bookings *)

\* For stays of at least one night, to share a date is to be of one property
\* and to have check-ins on or before each other's check-outs.
LEMMA OverlapIsIntervals ==
  ASSUME NEW s \in Stays, NEW t \in Stays,
         s.checkIn <= s.checkOut, t.checkIn <= t.checkOut
  PROVE  Overlap(s, t) <=>
           /\ s.property = t.property
           /\ s.checkIn <= t.checkOut
           /\ t.checkIn <= s.checkOut
<1>1. /\ s.checkIn \in Int /\ s.checkOut \in Int
      /\ t.checkIn \in Int /\ t.checkOut \in Int
  BY StaysAssumption
<1>2. ASSUME Overlap(s, t)
      PROVE  /\ s.property = t.property
             /\ s.checkIn <= t.checkOut
             /\ t.checkIn <= s.checkOut
  <2>1. PICK d \in Nights(s) : d \in Nights(t)
    BY <1>2 DEF Overlap
  <2>2. QED
    BY <1>1, <2>1 DEF Nights
<1>3. ASSUME s.property = t.property,
             s.checkIn <= t.checkOut, t.checkIn <= s.checkOut
      PROVE  Overlap(s, t)
  <2>1. PICK n \in Int : n \in s.checkIn .. s.checkOut /\ n \in t.checkIn .. t.checkOut
    <3>1. CASE s.checkIn <= t.checkIn
      BY <1>1, <1>3, <3>1
    <3>2. CASE t.checkIn <= s.checkIn
      BY <1>1, <1>3, <3>2
    <3>3. QED
      BY <1>1, <3>1, <3>2
  <2>2. <<s.property, n>> \in Nights(s) \cap Nights(t)
    BY <1>3, <2>1 DEF Nights
  <2>3. QED
    BY <2>2 DEF Overlap
<1>4. QED
  BY <1>2, <1>3

\* Whoever audits the calendar finds each double booking where it is: a
\* confirmed booking that is not written on all its dates meets another
\* confirmed one, and of two confirmed ones that meet, one is not.
THEOREM DoubleBookingsVisible == Spec => []CalendarTells
<1>1. ASSUME IInv PROVE CalendarTells
  <2>1. ASSUME NEW b \in Requests, booking[b] = "confirmed", ~OwnsItsDays(b)
        PROVE  \E c \in Requests : Clash(b, c)
    <3>1. PICK d \in Nights(stay[b]) : calendar[d] # b
      BY <2>1 DEF OwnsItsDays
    <3>2. PICK c \in Requests : c = calendar[d]
      BY <1>1, <2>1, <3>1 DEF IInv, ConfirmedDaysTaken, TypeOK
    <3>3. booking[c] = "confirmed" /\ d \in Nights(stay[c])
      BY <1>1, <2>1, <3>1, <3>2 DEF IInv, ConfirmedDaysTaken, TablesAgree
    <3>4. QED
      BY <2>1, <3>1, <3>2, <3>3 DEF Clash, Overlap
  <2>2. ASSUME NEW b \in Requests, NEW c \in Requests, Clash(b, c)
        PROVE  ~(OwnsItsDays(b) /\ OwnsItsDays(c))
    BY <2>2 DEF Clash, OwnsItsDays, Overlap
  <2>3. QED
    BY <2>1, <2>2 DEF CalendarTells
<1>2. QED
  BY <1>1, Inductive, PTL

\* The snapshot of INSERT ... HAVING is clear of every stay confirmed by then,
\* however many transactions are open on the calendar.
THEOREM SnapshotsClear == Spec => SnapshotsAreClear
<1>1. ASSUME IInv, [Next]_vars PROVE [LatecomersRefused]_vars
  <2>1. SUFFICES ASSUME NEW b \in Requests, NEW c \in Requests,
                        pc[b] # "insert", pc'[b] = "insert",
                        booking[c] = "confirmed", Overlap(stay[b], stay[c])
                 PROVE  FALSE
    BY DEF LatecomersRefused
  <2>2. SelectDates(b) /\ Insertable(stay[b])
    <3> USE DEF IInv, TypeOK, Goto
    <3>1. PICK r \in Requests : Arrives(r) \/ Step(r) \/ TxFails(r) \/ Crash(r)
      BY <1>1, <2>1 DEF Next, HoldExpires, vars
    <3>2. CASE \/ SetHold(r) \/ SetHoldErrs(r) \/ ReadHolder(r)
               \/ ReleaseHold(r) \/ ReleaseErrs(r) \/ InsertKey(r)
               \/ InsertKeyErrs(r) \/ InsertBooking(r) \/ InsertErrs(r)
      BY <1>1, <2>1, <3>2 DEF SetHold, SetHoldErrs, ReadHolder, ReleaseHold,
         ReleaseErrs, InsertKey, InsertKeyErrs, InsertBooking, InsertErrs
    <3>3. CASE \/ LockKey(r) \/ KeyFinalized(r) \/ KeyMissing(r)
               \/ \E d \in Rows : BlockDay(r, d)
               \/ Commit(r) \/ CommitErrs(r) \/ Enqueue(r) \/ EnqueueErrs(r)
               \/ Arrives(r) \/ TxFails(r) \/ Crash(r)
      BY <1>1, <2>1, <3>3 DEF LockKey, KeyFinalized, KeyMissing, BlockDay,
         Commit, CommitErrs, Enqueue, EnqueueErrs, Arrives, CreateArrives,
         ConfirmArrives, TxFails, Crash
    <3>4. CASE SelectDates(r)
      BY <1>1, <2>1, <3>4 DEF SelectDates
    <3>5. QED
      BY <3>1, <3>2, <3>3, <3>4 DEF Step
  <2>3. stay[b] \in Stays
    BY <1>1, <2>2 DEF SelectDates, IInv, Arguments, Creating, Holding
  <2>4. PICK d \in Nights(stay[b]) : d \in Nights(stay[c])
    BY <2>1 DEF Overlap
  <2>5. calendar[d] = None
    BY <2>2, <2>3, InsertableDays
  <2>6. QED
    BY <1>1, <2>1, <2>4, <2>5 DEF IInv, ConfirmedDaysTaken
<1>2. QED
  BY <1>1, Inductive, PTL DEF Spec, SnapshotsAreClear

\* A commit that wrote every date of its stay meets no confirmed stay.
LEMMA FullCommit ==
  ASSUME IInv, NoDoubleBooking,
         NEW r \in Requests, Publish(r), stay' = stay,
         wrote[r] = Nights(stay[key[r]])
  PROVE  NoDoubleBooking'
<1> USE DEF IInv, TypeOK
<1>1. PICK k \in Requests : k = key[r]
  BY DEF Publish, Transactions
<1>2. booking' = [booking EXCEPT ![k] = "confirmed"]
  BY <1>1 DEF Publish
<1>3. ASSUME NEW c \in Requests, booking[c] = "confirmed", NEW d \in Nights(stay[k])
      PROVE  d \notin Nights(stay[c])
  <2>1. calendar[d] = None
    BY <1>1, <1>3 DEF Publish, Transactions
  <2>2. QED
    BY <1>3, <2>1 DEF ConfirmedDaysTaken
<1>4. ASSUME NEW b \in Requests, NEW c \in Requests,
             booking'[b] = "confirmed", booking'[c] = "confirmed",
             Overlap(stay[b], stay[c])
      PROVE  b = c
  <2>1. CASE b = k
    BY <1>2, <1>3, <1>4, <2>1 DEF Overlap
  <2>2. CASE c = k
    BY <1>2, <1>3, <1>4, <2>2 DEF Overlap
  <2>3. CASE b # k /\ c # k
    BY <1>2, <1>4, <2>3 DEF NoDoubleBooking
  <2>4. QED
    BY <2>1, <2>2, <2>3
<1>5. QED
  BY <1>4 DEF NoDoubleBooking

\* The first double booking is the work of a commit whose UPDATE passed over a
\* row, and of nothing else the program or its environment does.
THEOREM OnlyShortCommitsDoubleBook == Spec => DoubleBookingsAreShort
<1>1. ASSUME IInv, [Next]_vars PROVE [OnlyShortCommits]_vars
  <2>1. SUFFICES ASSUME NoDoubleBooking, \A r \in Requests : ~CommitsShort(r)
                 PROVE  NoDoubleBooking'
    BY DEF OnlyShortCommits
  <2>2. ASSUME NEW r \in Requests, Commit(r) \/ CommitErrs(r)
        PROVE  NoDoubleBooking'
    BY <1>1, <2>1, <2>2, FullCommit DEF Commit, CommitErrs, CommitsShort, request
  <2>3. ASSUME \A b \in Requests : booking'[b] = "confirmed" =>
                 booking[b] = "confirmed" /\ stay'[b] = stay[b]
        PROVE  NoDoubleBooking'
    BY <2>1, <2>3 DEF NoDoubleBooking
  <2>4. ASSUME NEW r \in Requests, InsertBooking(r) \/ InsertErrs(r)
        PROVE  NoDoubleBooking'
    BY <1>1, <2>3, <2>4 DEF InsertBooking, InsertErrs, IInv, TypeOK, request
  <2>5. ASSUME NEW r \in Requests, Arrives(r) PROVE NoDoubleBooking'
    BY <1>1, <2>3, <2>5 DEF Arrives, CreateArrives, ConfirmArrives, tables,
       IInv, TypeOK, Arguments
  <2>6. CASE UNCHANGED <<booking, stay>>
    BY <2>3, <2>6
  <2>7. ASSUME NEW r \in Requests, Step(r) \/ TxFails(r) \/ Crash(r)
        PROVE  NoDoubleBooking'
    <3>1. CASE Commit(r) \/ CommitErrs(r) \/ InsertBooking(r) \/ InsertErrs(r)
      BY <2>2, <2>4, <3>1
    <3>2. CASE \/ SetHold(r) \/ SetHoldErrs(r) \/ ReadHolder(r)
               \/ SelectDates(r) \/ ReleaseHold(r) \/ ReleaseErrs(r)
               \/ InsertKey(r) \/ InsertKeyErrs(r)
      BY <2>6, <3>2 DEF SetHold, SetHoldErrs, ReadHolder, SelectDates,
                        ReleaseHold, ReleaseErrs, InsertKey, InsertKeyErrs,
                        tables, request
    <3>3. CASE \/ LockKey(r) \/ KeyFinalized(r) \/ KeyMissing(r)
               \/ \E d \in Rows : BlockDay(r, d)
               \/ Enqueue(r) \/ EnqueueErrs(r) \/ TxFails(r) \/ Crash(r)
      BY <2>6, <3>3 DEF LockKey, KeyFinalized, KeyMissing, BlockDay, Enqueue,
                        EnqueueErrs, TxFails, Crash, tables, request
    <3>4. QED
      BY <2>7, <3>1, <3>2, <3>3 DEF Step
  <2>8. QED
    BY <1>1, <2>5, <2>6, <2>7 DEF Next, HoldExpires, tables, request, vars
<1>2. QED
  BY <1>1, Inductive, PTL DEF Spec, DoubleBookingsAreShort

\* One check repairs ConfirmBooking: if no transaction commits unless its UPDATE
\* changed as many rows as the stay has dates, nobody is ever double booked.
THEOREM CountingSuffices ==
  Spec /\ [][\A r \in Requests : ~CommitsShort(r)]_vars => []NoDoubleBooking
<1>1. Init => NoDoubleBooking
  BY DEF Init, NoDoubleBooking
<1>2. NoDoubleBooking /\ UNCHANGED vars => NoDoubleBooking'
  BY DEF NoDoubleBooking, vars
<1>3. /\ NoDoubleBooking
      /\ [OnlyShortCommits]_vars
      /\ [\A r \in Requests : ~CommitsShort(r)]_vars
      => NoDoubleBooking'
  BY <1>2 DEF OnlyShortCommits
<1>4. QED
  BY <1>1, <1>3, OnlyShortCommitsDoubleBook, PTL DEF Spec, DoubleBookingsAreShort
-----------------------------------------------------------------------------
(* Waiting *)

\* If every open transaction is stuck, each of them is in a deadlock, because
\* the rows it waits for belong to open transactions.
THEOREM WaitsEnd == Spec => []SomebodyCanGo
<1>1. ASSUME IInv PROVE SomebodyCanGo
  <2> SUFFICES ASSUME NEW r \in Requests, Waits(r),
                      \A q \in Requests : pc[q] = "block" => Stuck(q)
               PROVE  \E q \in Requests : pc[q] = "block" /\ Deadlocked(q)
    BY DEF SomebodyCanGo
  <2>1. PICK q \in Requests : pc[q] = "block"
    BY DEF Waits, Stuck, KeyLocked
  <2>2. ASSUME NEW d \in todo[q]
        PROVE  \E p \in Requests \ {q} : d \in wrote[p] /\ Stuck(p)
    <3>1. Stuck(q)
      BY <2>1
    <3>2. PICK p \in Requests \ {q} : d \in wrote[p]
      BY <2>2, <3>1 DEF Stuck, RowLocked
    <3>3. pc[p] = "block"
      BY <1>1, <3>2 DEF IInv, Transactions
    <3>4. QED
      BY <3>2, <3>3
  <2>3. QED
    BY <2>1, <2>2 DEF Deadlocked
<1>2. QED
  BY <1>1, Inductive, PTL
=============================================================================
