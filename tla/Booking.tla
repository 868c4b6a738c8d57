------------------------------- MODULE Booking -------------------------------
(***************************************************************************)
(* The booking service of Stayz: BookingService.CreateBooking and          *)
(* ConfirmBooking run by concurrent HTTP requests over three Postgres      *)
(* tables, the Redis holds and the asynq queue.                            *)
(*                                                                         *)
(* One step is one call to a store: that is the grain at which requests    *)
(* interleave, fail and crash.  Postgres runs at READ COMMITTED.  The two  *)
(* UPDATEs that a confirmation makes under the lock of its key row are     *)
(* seen by nobody before COMMIT, so they are published there; the UPDATE   *)
(* of the calendar is split row by row, since it waits for row locks, and  *)
(* the INSERT of a booking into the snapshot it reads and the commit that  *)
(* makes the row visible, since others commit in between.                  *)
(*                                                                         *)
(* A booking and its idempotency key are named by the create request that  *)
(* inserted them: ids and keys are fresh UUIDs.                            *)
(***************************************************************************)
EXTENDS Calendar

CONSTANTS
  Users,    \* authenticated users
  Requests, \* HTTP requests, each served once
  None      \* no holder, no booking, no stay

ASSUME NoneAssumption == None \notin Users \cup Requests \cup Stays

VARIABLES
  hold,     \* Redis: hold[s] is the user in the hold key made of s, or None
  lost,     \* history: the holds that a SET or DEL left there with an error
  booking,  \* bookings.status of the row r inserted, or "absent"
  idem,     \* idempotency_keys: "absent", "open" or "finalized"
  calendar, \* property_availability.booking_id, None while is_available
  queue,    \* booking completion tasks enqueued, by confirming request
  pc,       \* the call each request makes next, or the reply it got
  user,     \* the user of each request
  stay,     \* the stay a create request asks for
  key,      \* the idempotency key a confirm request presents
  todo,     \* rows the calendar UPDATE of r has not visited yet
  wrote     \* rows it has changed and therefore locks

vars == <<hold, lost, booking, idem, calendar, queue,
          pc, user, stay, key, todo, wrote>>

redis == <<hold, lost>>
request == <<user, stay, key>>
tables == <<booking, idem, calendar>>
tx == <<todo, wrote>>

\* Where a request is inside CreateBooking while it owns the hold it set,
\* inside CreateBooking at all, and inside ConfirmBooking.
Holding == {"select", "insert", "release", "key"}
Creating == Holding \cup {"set", "holder"}
Confirming == {"lock", "block", "enqueue"}
Active == Creating \cup Confirming

\* The replies: the idempotency key, ErrBookingInProgress, ErrPropertyHeld,
\* ErrBookingAlreadyConfirmed, the confirmed booking and an internal error.
Replies == {"created", "in_progress", "held", "already", "confirmed", "failed"}

\* The statuses chk_status lets into the table.
Statuses == {"pending", "confirmed", "canceled"}

TypeOK ==
  /\ hold \in [Stays -> Users \cup {None}]
  /\ lost \subseteq Stays
  /\ booking \in [Requests -> Statuses \cup {"absent"}]
  /\ idem \in [Requests -> {"absent", "open", "finalized"}]
  /\ calendar \in [Rows -> Requests \cup {None}]
  /\ queue \subseteq Requests
  /\ pc \in [Requests -> Active \cup Replies \cup {"idle", "crashed"}]
  /\ user \in [Requests -> Users \cup {None}]
  /\ stay \in [Requests -> Stays \cup {None}]
  /\ key \in [Requests -> Requests \cup {None}]
  /\ todo \in [Requests -> SUBSET Rows]
  /\ wrote \in [Requests -> SUBSET Rows]

Init ==
  /\ hold = [s \in Stays |-> None]
  /\ lost = {}
  /\ booking = [r \in Requests |-> "absent"]
  /\ idem = [r \in Requests |-> "absent"]
  /\ calendar = [d \in Rows |-> None]
  /\ queue = {}
  /\ pc = [r \in Requests |-> "idle"]
  /\ user = [r \in Requests |-> None]
  /\ stay = [r \in Requests |-> None]
  /\ key = [r \in Requests |-> None]
  /\ todo = [r \in Requests |-> {}]
  /\ wrote = [r \in Requests |-> {}]

Goto(r, where) == pc' = [pc EXCEPT ![r] = where]

-----------------------------------------------------------------------------
(* CreateBooking *)

\* The handler binds the payload and calls the service; it never validates
\* it, so every stay reaches the service, in any spelling.  One that Postgres
\* cannot read fails in the INSERT, as a stay without a night does.
CreateArrives(r, u, s) ==
  /\ pc[r] = "idle"
  /\ user' = [user EXCEPT ![r] = u]
  /\ stay' = [stay EXCEPT ![r] = s]
  /\ Goto(r, "set")
  /\ UNCHANGED <<redis, queue, key, tables, tx>>

\* Mutant: the SET without NX.
SetHoldAlways(r) ==
  /\ pc[r] = "set"
  /\ hold' = [hold EXCEPT ![stay[r]] = user[r]]
  /\ Goto(r, "select")
  /\ UNCHANGED <<lost, queue, request, tables, tx>>

\* SET holdKey userID NX EX 60, the key being made of the strings of the
\* payload: two spellings of one stay have two keys.  A nil answer means that
\* the key exists.
SetHold(r) ==
  /\ pc[r] = "set"
  /\ IF hold[stay[r]] = None
     THEN /\ hold' = [hold EXCEPT ![stay[r]] = user[r]]
          /\ Goto(r, "select")
     ELSE /\ Goto(r, "holder")
          /\ UNCHANGED hold
  /\ UNCHANGED <<lost, queue, request, tables, tx>>

\* The SET comes back with an error, whether or not Redis executed it: isSet
\* is false and the code goes on as if someone held the stay.
SetHoldErrs(r) ==
  /\ pc[r] = "set"
  /\ \/ UNCHANGED redis
     \/ /\ hold[stay[r]] = None
        /\ hold' = [hold EXCEPT ![stay[r]] = user[r]]
        /\ lost' = lost \cup {stay[r]}
  /\ Goto(r, "holder")
  /\ UNCHANGED <<queue, request, tables, tx>>

\* GET holdKey decides between the two conflicts; a GET that fails or finds
\* the hold expired counts as another user's hold.
ReadHolder(r) ==
  /\ pc[r] = "holder"
  /\ \/ /\ hold[stay[r]] = user[r]
        /\ Goto(r, "in_progress")
     \/ Goto(r, "held")
  /\ UNCHANGED <<redis, queue, request, tables, tx>>

\* The dates of a stay that are rows marked available.
FreeDates(s) ==
  {d \in s.checkIn .. s.checkOut :
     /\ <<s.property, d>> \in Rows
     /\ calendar[<<s.property, d>>] = None}

\* Mutant: the INSERT without its HAVING clause.
InsertableInPart(s) ==
  /\ s.checkIn < s.checkOut
  /\ FreeDates(s) # {}

\* The HAVING clause of the INSERT, and the table's check of the dates.
Insertable(s) ==
  /\ s.checkIn < s.checkOut
  /\ Cardinality(FreeDates(s)) = s.checkOut - s.checkIn + 1

\* Mutant: an INSERT that selected nothing taken for a success.
SelectNothing(r) ==
  /\ pc[r] = "select"
  /\ Goto(r, IF Insertable(stay[r]) THEN "insert" ELSE "key")
  /\ UNCHANGED <<redis, queue, request, tables, tx>>

\* Mutant: a stay that cannot be had is refused without the DEL.
SelectKeepsHold(r) ==
  /\ pc[r] = "select"
  /\ Goto(r, IF Insertable(stay[r]) THEN "insert" ELSE "failed")
  /\ UNCHANGED <<redis, queue, request, tables, tx>>

\* INSERT INTO bookings ... SELECT ... HAVING: the statement takes its snapshot
\* of the calendar, and with it the decision.
SelectDates(r) ==
  /\ pc[r] = "select"
  /\ Goto(r, IF Insertable(stay[r]) THEN "insert" ELSE "release")
  /\ UNCHANGED <<redis, queue, request, tables, tx>>

\* The row is inserted and committed, by the statement's own transaction,
\* whatever became of the calendar since the snapshot.
InsertBooking(r) ==
  /\ pc[r] = "insert"
  /\ booking' = [booking EXCEPT ![r] = "pending"]
  /\ Goto(r, "key")
  /\ UNCHANGED <<redis, idem, calendar, queue, request, tx>>

\* The INSERT comes back with an error, whether or not it was committed.
InsertErrs(r) ==
  /\ \/ pc[r] \in {"select", "insert"} /\ UNCHANGED booking
     \/ pc[r] = "insert" /\ booking' = [booking EXCEPT ![r] = "pending"]
  /\ Goto(r, "release")
  /\ UNCHANGED <<redis, idem, calendar, queue, request, tx>>

NoHold(s) ==
  /\ hold' = [hold EXCEPT ![s] = None]
  /\ lost' = lost \ {s}

\* DEL holdKey, whoever holds it by now.
ReleaseHold(r) ==
  /\ pc[r] = "release"
  /\ NoHold(stay[r])
  /\ Goto(r, "failed")
  /\ UNCHANGED <<queue, request, tables, tx>>

\* The DEL comes back with an error, which is ignored, whether or not Redis
\* executed it.
ReleaseErrs(r) ==
  /\ pc[r] = "release"
  /\ \/ NoHold(stay[r])
     \/ /\ hold[stay[r]] # None
        /\ lost' = lost \cup {stay[r]}
        /\ UNCHANGED hold
  /\ Goto(r, "failed")
  /\ UNCHANGED <<queue, request, tables, tx>>

\* INSERT INTO idempotency_keys; the reply carries the key.  The hold stays.
InsertKey(r) ==
  /\ pc[r] = "key"
  /\ idem' = [idem EXCEPT ![r] = "open"]
  /\ Goto(r, "created")
  /\ UNCHANGED <<redis, booking, calendar, queue, request, tx>>

\* Generating or inserting the key fails, or the insert is committed and its
\* answer lost: the booking stays pending and the hold stays too.
InsertKeyErrs(r) ==
  /\ pc[r] = "key"
  /\ \/ UNCHANGED idem
     \/ idem' = [idem EXCEPT ![r] = "open"]
  /\ Goto(r, "failed")
  /\ UNCHANGED <<redis, booking, calendar, queue, request, tx>>

-----------------------------------------------------------------------------
(* ConfirmBooking *)

\* The keys a client can present: those it was given, and one nobody was.
KnownKeys == {b \in Requests : pc[b] = "created"} \cup {None}

\* The key travels in the path; whose booking it names is not asked.
ConfirmArrives(r, u, k) ==
  /\ pc[r] = "idle"
  /\ k \in KnownKeys
  /\ user' = [user EXCEPT ![r] = u]
  /\ key' = [key EXCEPT ![r] = k]
  /\ Goto(r, "lock")
  /\ UNCHANGED <<redis, queue, stay, tables, tx>>

\* Mutant: the SELECT without FOR UPDATE.
KeyNeverLocked(r) == FALSE

\* Another transaction has the key row FOR UPDATE.
KeyLocked(r) == \E q \in Requests \ {r} : pc[q] = "block" /\ key[q] = key[r]

Finalized(k) == idem[k] = "finalized"

\* Mutant: the UPDATE of the calendar leaves the check-out date out.
LockKeyNoCheckOut(r) ==
  /\ pc[r] = "lock"
  /\ key[r] # None
  /\ ~KeyLocked(r)
  /\ ~Finalized(key[r])
  /\ todo' = [todo EXCEPT ![r] =
                {d \in Nights(stay[key[r]]) \cap Rows : d[2] < stay[key[r]].checkOut}]
  /\ Goto(r, "block")
  /\ UNCHANGED <<redis, queue, request, tables, wrote>>

\* SELECT ... FOR UPDATE returns an open key, is_finalized is false, and the
\* transaction updates the booking and the key and starts on the calendar.
LockKey(r) ==
  /\ pc[r] = "lock"
  /\ key[r] # None
  /\ ~KeyLocked(r)
  /\ ~Finalized(key[r])
  /\ todo' = [todo EXCEPT ![r] = Nights(stay[key[r]]) \cap Rows]
  /\ Goto(r, "block")
  /\ UNCHANGED <<redis, queue, request, tables, wrote>>

\* The key is finalized: ErrBookingAlreadyConfirmed, and the rollback.
KeyFinalized(r) ==
  /\ pc[r] = "lock"
  /\ key[r] # None
  /\ ~KeyLocked(r)
  /\ Finalized(key[r])
  /\ Goto(r, "already")
  /\ UNCHANGED <<redis, queue, request, tables, tx>>

\* No row has the key: an internal error, and the rollback.
KeyMissing(r) ==
  /\ pc[r] = "lock"
  /\ key[r] = None
  /\ Goto(r, "failed")
  /\ UNCHANGED <<redis, queue, request, tables, tx>>

\* Mutant: rows changed by an open transaction can be changed.
RowNeverLocked(r, d) == FALSE

\* Mutant: the UPDATE without is_available = true.
DayAlwaysFree(d) == TRUE

\* Another transaction has changed the row and is not over.
RowLocked(r, d) == \E q \in Requests \ {r} : d \in wrote[q]

DayFree(d) == calendar[d] = None

\* UPDATE property_availability reaches row d.  It waits for a transaction
\* that changed the row, then looks at is_available again; rows that are taken
\* are passed over, and how many were changed is never asked.  The rows come
\* in any order: the statement has no ORDER BY.
BlockDay(r, d) ==
  /\ pc[r] = "block"
  /\ d \in todo[r]
  /\ ~RowLocked(r, d)
  /\ wrote' = [wrote EXCEPT ![r] = IF DayFree(d) THEN @ \cup {d} ELSE @]
  /\ todo' = [todo EXCEPT ![r] = @ \ {d}]
  /\ UNCHANGED <<redis, queue, pc, request, tables>>

\* Mutant: the transaction does not finalize the key.
PublishOpenKey(r) ==
  /\ pc[r] = "block"
  /\ todo[r] = {}
  /\ booking' = [booking EXCEPT ![key[r]] = "confirmed"]
  /\ calendar' = [d \in Rows |-> IF d \in wrote[r] THEN key[r] ELSE calendar[d]]
  /\ wrote' = [wrote EXCEPT ![r] = {}]
  /\ UNCHANGED <<idem, todo>>

\* COMMIT makes all the transaction wrote visible and drops its locks.
Publish(r) ==
  /\ pc[r] = "block"
  /\ todo[r] = {}
  /\ booking' = [booking EXCEPT ![key[r]] = "confirmed"]
  /\ idem' = [idem EXCEPT ![key[r]] = "finalized"]
  /\ calendar' = [d \in Rows |-> IF d \in wrote[r] THEN key[r] ELSE calendar[d]]
  /\ wrote' = [wrote EXCEPT ![r] = {}]
  /\ UNCHANGED todo

Commit(r) ==
  /\ Publish(r)
  /\ Goto(r, "enqueue")
  /\ UNCHANGED <<redis, queue, request>>

\* COMMIT took effect but its answer is lost: the client is told it failed
\* and nothing is enqueued.
CommitErrs(r) ==
  /\ Publish(r)
  /\ Goto(r, "failed")
  /\ UNCHANGED <<redis, queue, request>>

\* Mutant: no deferred Rollback, so the transaction keeps its row locks.
TxFailsOpen(r) ==
  /\ pc[r] \in {"lock", "block"}
  /\ todo' = [todo EXCEPT ![r] = {}]
  /\ Goto(r, "failed")
  /\ UNCHANGED <<redis, queue, request, tables, wrote>>

\* BEGIN or a statement fails, or COMMIT does without effect; the deferred
\* Rollback undoes the writes and drops the locks.
TxFails(r) ==
  /\ pc[r] \in {"lock", "block"}
  /\ todo' = [todo EXCEPT ![r] = {}]
  /\ wrote' = [wrote EXCEPT ![r] = {}]
  /\ Goto(r, "failed")
  /\ UNCHANGED <<redis, queue, request, tables>>

\* The completion task goes to asynq after the commit; an error is logged and
\* the client is told of the confirmation all the same.
Enqueue(r) ==
  /\ pc[r] = "enqueue"
  /\ queue' = queue \cup {r}
  /\ Goto(r, "confirmed")
  /\ UNCHANGED <<redis, request, tables, tx>>

EnqueueErrs(r) ==
  /\ pc[r] = "enqueue"
  /\ queue' \in {queue, queue \cup {r}}
  /\ Goto(r, "confirmed")
  /\ UNCHANGED <<redis, request, tables, tx>>

-----------------------------------------------------------------------------
(* The environment *)

\* The minute of the hold is over.
HoldExpires(s) ==
  /\ hold[s] # None
  /\ NoHold(s)
  /\ UNCHANGED <<queue, pc, request, tables, tx>>

\* The process that serves r dies, or the client's reply is lost with it:
\* Postgres rolls an open transaction back, Redis keeps the hold.
Crash(r) ==
  /\ pc[r] \in Active
  /\ todo' = [todo EXCEPT ![r] = {}]
  /\ wrote' = [wrote EXCEPT ![r] = {}]
  /\ Goto(r, "crashed")
  /\ UNCHANGED <<redis, queue, request, tables>>

Arrives(r) ==
  \E u \in Users :
    \/ \E s \in Stays : CreateArrives(r, u, s)
    \/ \E k \in Requests \cup {None} : ConfirmArrives(r, u, k)

\* The steps the handler of r takes by itself, the failures of its calls
\* included, a failing transaction excepted.
Step(r) ==
  \/ SetHold(r) \/ SetHoldErrs(r) \/ ReadHolder(r)
  \/ SelectDates(r) \/ InsertBooking(r) \/ InsertErrs(r)
  \/ ReleaseHold(r) \/ ReleaseErrs(r)
  \/ InsertKey(r) \/ InsertKeyErrs(r)
  \/ LockKey(r) \/ KeyFinalized(r) \/ KeyMissing(r)
  \/ \E d \in Rows : BlockDay(r, d)
  \/ Commit(r) \/ CommitErrs(r) \/ Enqueue(r) \/ EnqueueErrs(r)

Next ==
  \/ \E r \in Requests : Arrives(r) \/ Step(r) \/ TxFails(r) \/ Crash(r)
  \/ \E s \in Stays : HoldExpires(s)

Spec == Init /\ [][Next]_vars

-----------------------------------------------------------------------------
(* Schedules *)

\* Nobody is between its SET of this key and the end of CreateBooking.
NoCreator(s) == ~ \E r \in Requests : pc[r] \in Holding /\ stay[r] = s

\* Every CreateBooking ends within the minute its hold lasts.
PromptNext == Next /\ \A s \in Stays : HoldExpires(s) => NoCreator(s)

PromptSpec == Init /\ [][PromptNext]_vars

\* All the rows left to r are locked by transactions that wait as well.
Stuck(r) ==
  /\ pc[r] = "block"
  /\ todo[r] # {}
  /\ \A d \in todo[r] : RowLocked(r, d)

Deadlocked(r) ==
  /\ Stuck(r)
  /\ \A d \in todo[r] : \E q \in Requests \ {r} : d \in wrote[q] /\ Stuck(q)

\* Handlers keep running, and Postgres ends a deadlock by failing one of the
\* transactions in it.
Fairness ==
  /\ \A r \in Requests : WF_vars(Step(r))
  /\ \A r \in Requests : WF_vars(Deadlocked(r) /\ TxFails(r))

FairSpec == Spec /\ Fairness

-----------------------------------------------------------------------------
(* Properties *)

\* The three tables that one confirmation writes agree: a booking is confirmed
\* exactly when its key is finalized, so neither UPDATE of ConfirmBooking is
\* ever seen without the other, and a row of the calendar is only taken by a
\* confirmed booking whose stay contains it.
TablesAgree ==
  /\ \A b \in Requests : booking[b] = "confirmed" <=> idem[b] = "finalized"
  /\ \A d \in Rows : calendar[d] # None =>
       /\ booking[calendar[d]] = "confirmed"
       /\ d \in Nights(stay[calendar[d]])

\* Whatever happened between CreateBooking and ConfirmBooking, every date of a
\* confirmed stay is a row of the calendar that is off the market: the rows
\* that UpdatePropertyAvailability passed over were taken already.
ConfirmedDaysTaken ==
  \A b \in Requests : booking[b] = "confirmed" =>
    \A d \in Nights(stay[b]) : d \in Rows /\ calendar[d] # None

\* FOR UPDATE makes duplicate confirmations of one key take turns: only one of
\* them is ever past its commit, so a booking has one completion task at most.
OneConfirmationPerKey ==
  \A q, r \in Requests :
    /\ pc[q] \in {"enqueue", "confirmed"}
    /\ pc[r] \in {"enqueue", "confirmed"}
    /\ key[q] = key[r]
    => q = r

\* What the client is told and what the worker is given is in the tables: a
\* key handed out names a booking that exists, "already confirmed" and
\* "confirmed" are true, and a task is about a confirmed booking.
AnswersAreTrue ==
  \A r \in Requests :
    /\ pc[r] = "created" => booking[r] # "absent" /\ idem[r] # "absent"
    /\ pc[r] \in {"already", "confirmed"} => booking[key[r]] = "confirmed"
    /\ r \in queue => pc[r] = "confirmed" /\ booking[key[r]] = "confirmed"

\* A row that a confirmation has taken is never given to another booking, a
\* finalized key never opens again, a booking that was inserted stays and never
\* leaves "confirmed", whatever transactions, rollbacks and crashes follow.
NothingUndone ==
  /\ \A d \in Rows : calendar[d] # None => calendar'[d] = calendar[d]
  /\ \A b \in Requests : idem[b] = "finalized" => idem'[b] = "finalized"
  /\ \A b \in Requests : booking[b] # "absent" => booking'[b] # "absent"
  /\ \A b \in Requests : booking[b] = "confirmed" => booking'[b] = "confirmed"

NeverUndone == [][NothingUndone]_vars

\* The calendar, the bookings and their interleaved transactions behave as the
\* atomic reservation system of module Reservation.  A stay is reserved at the
\* snapshot of its INSERT, and withdrawn if the INSERT fails after that; the
\* row by row UPDATE that re-checks is_available is one step.
R == INSTANCE Reservation WITH
  Bookings <- Requests,
  booked <- [r \in Requests |->
               IF booking[r] = "absent" /\ pc[r] # "insert" THEN None ELSE stay[r]],
  confirmed <- {r \in Requests : booking[r] = "confirmed"},
  owner <- calendar

ImplementsReservation == R!Spec

\* README.md: the system is to "completely prevent double-booking".  Two stays
\* that meet are never both confirmed.  The code does not keep this; the three
\* properties after it say how far it is from doing so.
NoDoubleBooking ==
  \A b, c \in Requests :
    /\ booking[b] = "confirmed"
    /\ booking[c] = "confirmed"
    /\ Overlap(stay[b], stay[c])
    => b = c

\* No INSERT that reads the calendar once a confirmation is committed accepts a
\* date of that stay, whatever transactions are open meanwhile.  More is not
\* true: a confirmation may commit between the snapshot of an INSERT and its
\* end, and the booking is inserted over it.
LatecomersRefused ==
  \A b, c \in Requests :
    pc[b] # "insert" /\ pc'[b] = "insert" /\ booking[c] = "confirmed"
      => ~Overlap(stay[b], stay[c])

SnapshotsAreClear == [][LatecomersRefused]_vars

\* The calendar, which has room for one booking per date, gives every double
\* booking away, one by one: a confirmed booking that is not written on all
\* the dates of its stay meets another confirmed one, and of two confirmed ones
\* that meet, one at least is not.
OwnsItsDays(b) == \A d \in Nights(stay[b]) : calendar[d] = b

Clash(b, c) ==
  /\ b # c
  /\ booking[b] = "confirmed"
  /\ booking[c] = "confirmed"
  /\ Overlap(stay[b], stay[c])

CalendarTells ==
  \A b \in Requests : booking[b] = "confirmed" =>
    /\ OwnsItsDays(b) \/ \E c \in Requests : Clash(b, c)
    /\ \A c \in Requests : Clash(b, c) => ~(OwnsItsDays(b) /\ OwnsItsDays(c))

\* The UPDATE of the calendar changed fewer rows than the stay has dates, which
\* the code could see from the number of rows affected, and r commits.
CommitsShort(r) == Publish(r) /\ wrote[r] # Nights(stay[key[r]])

\* The first double booking is always made by such a commit, and by no other
\* interleaving of creations, confirmations, failures and crashes.
OnlyShortCommits ==
  NoDoubleBooking /\ ~NoDoubleBooking' => \E r \in Requests : CommitsShort(r)

DoubleBookingsAreShort == [][OnlyShortCommits]_vars

\* A confirmation that waits, for the lock of its key or for a row another one
\* changed, never waits in vain: some transaction can go on, or is part of a
\* deadlock, which Postgres sees and breaks.  No lock outlives its transaction.
Waits(r) == Stuck(r) \/ (pc[r] = "lock" /\ KeyLocked(r))

SomebodyCanGo ==
  \A r \in Requests : Waits(r) =>
    \E q \in Requests : pc[q] = "block" /\ (Stuck(q) => Deadlocked(q))

\* While every CreateBooking ends within its minute, the hold is a lock among
\* the requests that spell a stay alike, which is all their keys can tell: one
\* of them at a time is at work, and the hold names its user, so the DEL after
\* a failed INSERT cannot free the key of anyone else.  Spelt in another way,
\* the same stay is not protected (OneUserPerSlot).
HoldIsLock ==
  \A r \in Requests : pc[r] \in Holding =>
    /\ hold[stay[r]] = user[r]
    /\ \A q \in Requests : pc[q] \in Holding /\ stay[q] = stay[r] => q = r

\* Nobody is turned away by a hold for no reason: unless Redis failed, behind
\* each hold is a request of its user that is at work on the stay, has booked
\* it or died.  A stay that is refused, and no validation keeps one out, is
\* free for the next guest before the answer leaves.
HoldsAreMeant ==
  \A s \in Stays : hold[s] # None =>
    \/ s \in lost
    \/ \E r \in Requests :
         /\ stay[r] = s
         /\ user[r] = hold[s]
         /\ pc[r] \in Holding \cup {"crashed"} \/ booking[r] # "absent"

\* Every request gets its reply unless the process serving it dies: duplicate
\* confirmations, transactions locking each other's rows and failures of the
\* stores leave nobody waiting.
EveryRequestAnswered ==
  \A r \in Requests : pc[r] \in Active ~> pc[r] \in Replies \cup {"crashed"}

-----------------------------------------------------------------------------
(* The inductive invariant *)

\* A create request has its arguments, a confirm request a key some client was
\* given, and the rows a request has yet to insert are not there.
Arguments ==
  \A r \in Requests :
    /\ pc[r] \in Creating => user[r] \in Users /\ stay[r] \in Stays
    /\ pc[r] \in {"idle", "set", "holder", "select", "insert"} =>
         booking[r] = "absent"
    /\ pc[r] \in {"idle", "set", "holder", "select", "insert", "key"} =>
         idem[r] = "absent"
    /\ pc[r] \in {"key", "created"} => booking[r] # "absent"
    /\ pc[r] = "created" => idem[r] # "absent"
    /\ key[r] # None => pc[key[r]] = "created"

\* A booking is only inserted for a stay all of whose dates are rows.
Bookable ==
  \A r \in Requests : booking[r] # "absent" \/ pc[r] = "insert" =>
    /\ stay[r] \in Stays
    /\ \A d \in Nights(stay[r]) : d \in Rows

\* Only a transaction that is open has locks or work left.  It is alone on its
\* key, which is open; it works on dates of the stay, the rows it wrote are
\* free and no other transaction wrote them, and every date it passed over is
\* taken.
Transactions ==
  /\ \A r \in Requests : pc[r] # "block" => todo[r] = {} /\ wrote[r] = {}
  /\ \A r \in Requests : pc[r] = "block" =>
       /\ key[r] # None
       /\ idem[key[r]] = "open"
       /\ \A q \in Requests : pc[q] = "block" /\ key[q] = key[r] => q = r
       /\ \A d \in todo[r] \cup wrote[r] : d \in Nights(stay[key[r]])
       /\ \A d \in wrote[r] : calendar[d] = None
       /\ \A d \in Nights(stay[key[r]]) :
            d \in todo[r] \cup wrote[r] \/ calendar[d] # None
  /\ \A q, r \in Requests : q # r => wrote[q] \cap wrote[r] = {}

\* A request that says so has a key, and the key is finalized.
Finished ==
  \A r \in Requests : pc[r] \in {"already", "enqueue", "confirmed"} =>
    key[r] # None /\ idem[key[r]] = "finalized"

IInv ==
  /\ TypeOK
  /\ Arguments
  /\ Bookable
  /\ Transactions
  /\ Finished
  /\ TablesAgree
  /\ ConfirmedDaysTaken
  /\ OneConfirmationPerKey
  /\ \A r \in queue : pc[r] = "confirmed"

-----------------------------------------------------------------------------
(* What the documentation says, and the code does not do *)

\* README.md: the hold "ensures only one user can attempt to reserve that date
\* slot at a time".
OneUserPerSlot ==
  \A q, r \in Requests :
    pc[q] \in Holding /\ pc[r] \in Holding /\ SameSlot(stay[q], stay[r])
    => user[q] = user[r]

\* README.md, step by step flow: "Inside a single DB transaction" the booking
\* is confirmed "and an async notification task is queued".  A confirmed
\* booking has its task, unless its confirmation is about to enqueue it.
ConfirmationQueued ==
  \A b \in Requests : booking[b] = "confirmed" =>
    \E r \in Requests : key[r] = b /\ (pc[r] = "enqueue" \/ r \in queue)

\* README.md: a duplicate confirmation is rejected at once and the system
\* "returns success to the user".
DuplicateSucceeds ==
  \A r \in Requests : pc[r] # "already"
=============================================================================
