# A TLA+ model of Stayz

This directory holds TLA+ models of the Stayz back end (Go, Echo, Postgres,
Redis, asynq, Google Cloud Storage), TLC configurations that check them on
small instances, and TLAPS proofs of their main properties for instances of any
size. Paths such as `booking/service.go` are under `src/internal/`.

## The system

Stayz is one process. An Echo server runs a goroutine per request, asynq runs
up to ten workers in the same process, and each created listing leaves
goroutines behind that upload its images. Nothing is shared in memory between
requests: they meet in the stores.

| component | state | operations | modelled in |
|---|---|---|---|
| booking service (`booking/`) | `bookings`, `idempotency_keys`, `property_availability`; Redis `hold:property:...` | CreateBooking, ConfirmBooking | `Booking`, `Reservation` |
| property calendar (migrations 011, 012) | rows of `property_availability` | trigger on INSERT of a property | `Calendar`, `Browse` |
| accounts (`user/`), RequireAuth and RequireRole (`middleware/auth.go`) | `users`; Redis code, `is_verified:`, `session:` | SendOTP, VerifyOTP, Register, Login, LoginWithGoogle, UpdateRole, GetCurrentUser | `Accounts`, `Identity` |
| listings (`property/`, `lib/gcs`) | `properties`, `addresses`, `property_images`; the bucket; channel and WaitGroup | CreateProperty, processImageUploads | `Listing`, `Catalogue` |
| property reads and search (`property/`) | none of their own | lists, details, availability by month, Search | `Browse` |
| notification worker (`notification/`, `lib/email`) | the asynq queue, the workers | enqueue, send, retry, HandleSendOTP | `Delivery`, `Outbox`; `Booking`, `Accounts` |
| life cycle (`cmd/app/main.go`, `server/server.go`, `config`, `database`) | HTTP server, pools, workers, asynq client | start, serve, shutdown, exits | `Process` |
| error replies, validation, build | none | formatting | not modelled |

How they interact. Requests call Postgres and Redis, and confirmations hand a
task to asynq through Redis. A booking uses a calendar that the INSERT of a
property wrote. The user of a request comes from the session that RequireAuth
reads, and CreateProperty is behind RequireRole("host"). Search reads the
calendar that confirmations change and the images that uploads decide. Shutdown
stops the HTTP server, then closes the pools, then the workers; when the HTTP
server does not stop within ten seconds, it skips the pools.

What is hard. Every call to a store is a point where another request can step
in, where the call can fail, where it can take effect with its answer lost, and
where the process can die. CreateBooking is guarded by a Redis key that
expires and that is made of unchecked strings; ConfirmBooking by a row lock. Two confirmations can lock
calendar rows against each other. Codes, flags and sessions expire between the
steps that read them. Uploads finish in any order and are closed off by a
WaitGroup. Answers stay on screens while the tables move on. Tasks outlive the
process, their attempts outlive their deadlines. The list of hazards, each at its line, is in `PROJECT.json`.

What makes each part correct.

- Booking: the three tables agree; a confirmed stay is off the market on all
  its dates; one confirmation per key; replies and tasks are true; nothing
  confirmed is undone; requests are answered; no hold is left behind without a
  reason. Double bookings are possible, but only in one way, and the calendar
  gives each of them away.
- Accounts: one guess per code, one row per address, no session without the
  evidence its endpoint asks for,
  no listing by anybody who is not a host; and to the rest of the system all this
  is `Identity`.
- Listing: the status of an image is true of the bucket; no uploader blocks or
  sends on a closed channel; nothing is left behind; the task ends; and to the
  rest of the system all this is `Catalogue`.
- Reads: what a search hides could not be booked and never will be; what it
  shows was free; pictures stay true; calendar and search agree; a calendar goes
  out of date in one direction only.
- Mails: only for confirmed guests; a task is done only if its mail was sent and
  given up only after its retries; repeats have a reason; tasks come to rest; and
  to the guest all this is `Outbox`.
- Life cycle: nothing closed is used, nothing is used before it is there, an
  orderly stop loses no task, and a shutdown ends unless a query without a
  deadline keeps the pool from closing.

## The modules

One step of a model is one call to a store (or to the mail server, Google, the
bucket), because that is the grain at which requests interleave. A call that
fails has an action of its own, named `...Errs`, which allows the call to have
taken effect: a client cannot tell. `pc[r]` names the call that request `r`
makes next, or the reply it got. Each request is served once, and what it
creates (a booking and its key, a users row, a session, a listing) is named by
the request, since ids are fresh UUIDs.

**Calendar** has the rows that the trigger writes (today and 90 days more,
`Horizon`), the dates of a stay, both ends included as in `BETWEEN`, and
`Overlap`. A stay is what a guest sends: it may be spelt in several ways, which
Postgres does not tell apart (`SameSlot`).

**Booking** has CreateBooking (`SetHold`, `ReadHolder`, `SelectDates`,
`InsertBooking`, `ReleaseHold`, `InsertKey` and their failures) and ConfirmBooking (`LockKey`,
`KeyFinalized`, `KeyMissing`, `BlockDay`, `Commit`, `TxFails`, `Enqueue` and
their failures), and an environment (`HoldExpires`, `Crash`).
Postgres runs at READ COMMITTED. The SELECT ... FOR UPDATE takes the key row
until the transaction ends. The UPDATEs of the booking and of the key touch rows
that only the holder of that lock touches, and nobody sees them before COMMIT:
they are published by `Publish`. The UPDATE of the calendar visits its rows one
by one in any order, waits at a row that an open transaction changed, and looks
at `is_available` again when the wait is over; `todo` and `wrote` are the rows
not visited yet and the rows changed. A failed transaction is rolled back by the
deferred Rollback, a crashed one by Postgres. The guard against unavailable
dates is a single INSERT ... SELECT ... HAVING in a transaction of its own. It
reads one snapshot (`SelectDates`) and commits later (`InsertBooking`), without
another look at the calendar; confirmations commit in between. The hold key is
made of the strings of the payload, which the handler does not validate: `hold`
is a function of stays as they were spelt, so two spellings of one stay have two
holds. The setting of the key, the reading of its holder and its unconditional
DEL are separate calls to Redis. `lost` is a history variable: the holds that
were left by a SET or a DEL that came back with an error.

**Reservation** is what the service promises: a stay is reserved if all its
dates are free, and a confirmation takes, in one step, those that still are. A
reservation that is not confirmed may be withdrawn. An INSERT is a reservation at
its snapshot, withdrawn if the INSERT fails after it.
`Booking!R` maps `booking`, `idem` and `calendar` onto it.

**Accounts** has the seven endpoints and the gate of POST /property
(`RequireRole`). The stored code is `otp[e]`, the send
whose code is under address `e`; `flags` is the set of `is_verified:` keys,
whose names are addresses, while UpdateRole looks for one with a user's id.
`took`, `proved` and `named` are history variables: which code a verification
took, the addresses whose mailed code came back, and those that a token of Google
named. The flag is about an address, not about a client, and email_verified of
Google's token decides nothing; both are as in the code. `Codes` may repeat, `SixDigits` are those that
HandleSendOTP lets through. `MadeHost` is an operator writing the role into the
table, the way that is left since UpdateRole never gets that far
(`role_unchanged`). Nothing in the code takes a role away; `HostsList` would not
survive it, because sessions keep theirs for an hour.

**Identity** is what signing in promises: a user is made once for an address that
something vouched for (a code that came back, or Google), a session is opened
once, for a user with such an address, with a role he has or had, and a role only
rises. Who opens it is not part of the promise. `Accounts!Id` maps `users`, roles,
sessions, `proved` and `named` onto it. A user read before somebody else's
INSERT, a flag that has expired since, and a session whose SET took effect
without an answer are all within it.

**Listing** has CreateProperty and the goroutines of processImageUploads: the
loop (`StartUploader`), the uploaders (`Upload`, `UploadErrs`, `Send`), the
closer (`CloseChannel`) and the collector (`Receive`, `UpdateImageStatus`,
`Finish`). The order of results is abstracted: the channel is a set.

**Catalogue** is what a listing promises: the rows of a property appear
together with their images 'uploading', objects appear only for such images, and
the status of an image is decided once, 'active' only over an object. Listing's
goroutines, channel, failures and crashes are stutters of it (`Listing!Catalogue`
maps `property_images` and the bucket onto it).

**Browse** composes the two abstract specifications, Catalogue (hosts) and
Reservation (guests, withdrawals included), with the reads: GetAllProperties, GetPropertiesByHostID,
GetPropertyByID, GetPropertyAvailability and SearchProperties. Building on the
abstract ones is sound for safety, because Listing and Booking are shown to
implement them, and keeps the instance small. A read is one SELECT, hence one
step. Its answer stays in `shows`, `seen`, `freeDays` and `takenDays` while the
writers go on; `before` and `eligible` are history: what was confirmed when the
answer was given, and what a search would have shown but for its dates. `Blocked`
is the NOT EXISTS of the search (check-in included, check-out not, days without
a row block nothing), `WithActive` the loop in the service that drops properties
without an active image, `RowsOf` the rows the trigger has written by now.
`Searchable` takes the rule `gtcsfield=CheckIn` on the two date strings to
compare them; the rule before it, `datetime=2006-01-02`, lets only dates through
that have their zeros, for which that is the order of the dates. The validator
library is not in the repository.

**Delivery** has the asynq queue, one task for each confirm request, and
handleBookingCompletion at the grain of its calls: the lookup takes a connection
of the pool (`Lookup`) and gets its answer (`Resolve`), the mail is sent
(`SendConfirmationEmail`) or the send fails, having taken effect or not
(`SendErrs`). asynq is external; what is modelled of it is what its defaults
promise, since the code sets only `Concurrency`: 25 retries and then the archive
(`RetryOrArchive`), a timeout of half an hour (`TimeOut`), a shutdown that gives
tasks back after eight seconds (`Abort`), leases of dead processes that run out
(`Recover`). A handler that asynq gave up inside smtp.SendMail is a `stray`: its
mail can still go out. `returned` is history.

**Outbox** is what the guest sees of that queue: a mail is owed after its
confirmation, its debt is settled once, as done or as given up, and each mail
is drawn on a budget of one that repeats raise. `Process!O` maps the lists of
asynq to the fate of a mail (pending, active and retry are all "owed") and
`retried` and `returned` to the budget.

**Process** composes Delivery with the life of the process: `main` is the call
that main makes next. LoadConfig, database.New, the Redis client,
NewNotificationService, InitHandlers, SetUserRepo, Start, the listener, the
signal, httpServer.Shutdown with its ten seconds, DB.Close, RedisClient.Close,
asynqServer.Shutdown and client.Close follow one another as in the code, while
handlers of confirm requests and workers run. A life may end in a kill, a panic
or an os.Exit at any point (`Die`); the queue and the confirmed bookings
survive. The transaction of ConfirmBooking is one step here, Booking has its
inside. Of the background uploads Process has what touches the pool: the UPDATE
of an image's status (`UpdateImageStatus`, `UpdateReturns`), which runs on a
context without deadline or cancel and may be under way at any time; `updating`
has the listings whose collector is inside it. `faulted` and `late` are history: requests that met a failing call or a
dying process, and requests in their handlers when the ten seconds ran out.

**MCBooking, MCAccounts, MCListing, MCBrowse, MCProcess** give the constants
that a configuration cannot write, symmetry, and restricted next-state relations
where the table below says so. **BookingProofs, AccountsProofs, ListingProofs,
BrowseProofs, ProcessProofs** have the proofs. An
operator marked "Mutant" in a component is a plausible bug of the definition
that follows it; no specification uses it. `PROJECT.json` pairs each property
with a mutant that breaks it.

## The runs

| run | checks | instance | states |
|---|---|---|---|
| `booking_safety` | TablesAgree, ConfirmedDaysTaken, OneConfirmationPerKey, AnswersAreTrue, CalendarTells, IInv, NeverUndone, SnapshotsAreClear, DoubleBookingsAreShort, ImplementsReservation | 4 requests, 1 user, 3 days, stays 1-2 and 2-3 | 395,103 |
| `booking_prompt` | HoldIsLock and HoldsAreMeant, when creations end within their minute | 3 requests, 2 users, one stay in two spellings and one that has no night | 163,048 |
| `booking_live` | EveryRequestAnswered | 2 creations, 2 confirmations, one stay of two dates | 23,300 |
| `accounts` | OneGuessPerCode, OneUserPerEmail, SessionsEarned, HostsList, IInv, ImplementsIdentity | 4 requests, one address, codes of 5 and of 6 digits | 810,099 |
| `listing` | ImagesTellTheTruth, SendersAreFree, NothingLeftBehind, IInv, TaskEnds, ImplementsCatalogue | 1 request, up to 3 of 4 files | 50,684 |
| `browse` | HiddenForGood, FoundWasFree, PicturesLast, ReadsAgree, CalendarsAge, IInv | 2 properties of 3 days, 2 bookings, 3 stays, 2 reads; one property has two images, the other one that never fails | 1,165,418 |
| `process` | PoolsOutliveCalls, WorkersEquipped, OrderlyStopForgetsNobody, SettledRight, RepeatsAccounted, IInv, ImplementsOutbox, ShutdownEnds, TasksSettle | 2 confirm requests, 1 listing, 2 lives, 1 worker, 1 retry | 360,199 |
| `double_booking` | NoDoubleBooking fails | 4 requests, stays 1-2 and 2-3 | |
| `slot_two_users` | OneUserPerSlot fails | 3 requests, 2 users, one stay in two spellings, creations that end within their minute | |
| `task_lost` | ConfirmationQueued fails | 3 requests, one stay | |
| `duplicate_refused` | DuplicateSucceeds fails | 3 requests, one stay | |
| `role_unchanged` | RoleIsUpdated fails | 2 requests, one address | |

`TypeOK`, the type invariant of each component, is a part of its `IInv`, and is
checked with it.

Why the bounds are enough. A conflict between bookings needs two creations and
two confirmations: four requests. Two stays that meet on one date give a date
that both want and dates that only one wants, so a partial conflict, a complete
one and none all occur; two confirmations of one stay give the deadlock of two
rows. Users only matter to the hold, so the safety run has one and the run of
the hold two. In `Accounts` the longest story is a send, a verification and two
requests that use the flag; sessions and `UpdateRole` add a request with a
cookie. A host needs three: two sign-ins with the role written between them, and
a listing with the second session. One address suffices since requests of different addresses touch
different keys and rows. In `Listing` requests share nothing, so one is enough,
and three images already give every order of results. One file more than
`MaxFiles` covers the refusal. `MaxFiles` is 4 in the code. In `browse` the two
stays of one property meet on a date, so a booking can be partly overtaken; one
read before and one after a confirmation are two reads, and a search has two
destinations to tell apart. In `process` two lives are one in which a task is
left behind and one in which it is found; one retry is the first failure that is
repeated and the last that is archived, and one worker makes the second task
wait for the first. To keep liveness without symmetry small, calls of the second
request fail only with the process (`MCNext` of `MCProcess`), and the UPDATE of an
image begins only when main has stopped to wait for the handlers: nothing looks at
it before main closes the pool, so one that began earlier is no different. One
listing is enough, since the pool only asks whether any UPDATE is under way. Deadlock is not
checked, since every request is served once and the models stop when all have
their replies.

Symmetry is used in the safety runs, over requests and users, and never with a
liveness property.

The liveness runs assume weak fairness of the steps a handler or a goroutine
takes by itself: Go schedules every runnable goroutine, and calls to the stores
return (with an answer or an error). Postgres ends a deadlock by failing a
transaction in it: fairness of `TxFails` is only assumed in the state
`Deadlocked`. Crashes, other failures and the expiry of holds are never assumed. In `booking_live` two requests only create and two only confirm
(`RoleNext`), which keeps the run small without symmetry.

`process` assumes less. Nothing is asked of handlers, of collectors, of Postgres
or of the mail server: their calls may hang for good. Fair are main's own steps once the signal
has come (it is a goroutine that can run), the ten seconds (`ShutdownErrs` is
one of those steps), and what asynq does by itself: it takes tasks, notices what
handlers returned, lets its deadlines run out (`Expire`, `Requeue`), moves
retries that are due and looks for expired leases. `TasksSettle` speaks of the
runs in which some life goes on serving for good; no start of the process is
assumed.

`booking_prompt` restricts the schedule: a hold does not expire while its
CreateBooking is at work (`PromptSpec`). The code does not guarantee it; without
it the hold of another request can take the place of the first. `slot_two_users`
keeps the restriction, and shows that the lock is not on the slot even then.

## What the runs show

The safety properties hold, with the failures and crashes above. Some of what
that means is not obvious from the code:

- Search leaves the check-out date out and CreateBooking counts it in. The two
  still fit in the direction that matters to a guest: what a search hides can
  never be booked for those dates (`HiddenForGood`). In the other direction less
  is promised: `FoundWasFree` is about the nights only, and a stay that was just
  found can be refused because of its check-out date, or because it goes past the
  ninety days of the calendar.
- main closes the pools before it stops the workers. `PoolsOutliveCalls` holds
  all the same: handlers have returned by then, DB.Close waits for the queries of
  workers and the UPDATEs of collectors, and whoever asks for a connection later
  gets an error, which costs a worker a retry and no mail.
- That wait has no limit. The lookup of a worker ends with asynq's timeout, but
  the UPDATE of an image has no deadline and nobody cancels it: while it hangs in
  Postgres, the process stays in DB.Close, with its workers running and after its
  ten seconds. `ShutdownEnds` says that this is the one way in which a shutdown
  does not end.
- A hold is left behind only by a request that booked the stay or died, or by an
  error of Redis (`HoldsAreMeant`); a stay that cannot be had, which no validation
  keeps out, is free for the next guest before the answer leaves.
- When the ten seconds run out, pools stay open, and confirmations may commit
  while main leaves. Their tasks may be lost; `OrderlyStopForgetsNobody` says that
  only they, and requests whose own calls failed, are at risk.
- `RepeatsAccounted` bounds how often a guest is mailed: one mail, one for each
  retry and one for each shutdown that gave the task back.
- Two users who race for one address, or read it at different times, end with one
  row and with sessions about that row (`ImplementsIdentity`); nothing that
  happens inside a process makes asynq settle a mail twice (`ImplementsOutbox`).

Five statements
of the documentation or of the program itself do not:

- *Double booking is prevented* (README 73). It is not: two overlapping stays
  have different hold keys, a pending booking takes no date, and the UPDATE of a
  confirmation passes over dates that are taken and does not count what it
  changed (`double_booking`). What does hold is `ConfirmedDaysTaken` and
  `ImplementsReservation`: a date once taken stays with its booking, and the
  second confirmed booking is the one without its dates. Three more properties
  say what is left of `NoDoubleBooking`. An INSERT that takes its snapshot when a
  confirmation is committed accepts none of its dates (`SnapshotsAreClear`); one
  that took it earlier may be committed over that confirmation. The step that
  makes the first double booking is the COMMIT of a confirmation whose UPDATE
  changed fewer rows than its stay has dates, and nothing else
  (`DoubleBookingsAreShort`). And the calendar tells which bookings clash: a
  confirmed one that is not written on all its dates meets another, and of two
  that meet one at least is not (`CalendarTells`). Hence the repair, which
  `CountingSuffices` proves: compare the rows affected with the dates of the
  stay, and roll back when they differ.
- *The hold lets one user at a time into a slot* (README 81): not if they write
  the slot in different ways, '2026-08-15' and '2026-8-15' say
  (`slot_two_users`), and not when the minute of the hold is over before the
  request is.
- *The task is queued inside the transaction* (README 94): it is enqueued after
  it, and can be lost (`task_lost`).
- *A duplicate confirmation is answered with success* (README 93): it is a 409
  (`duplicate_refused`).
- *"user role updated successfully"* (`user/handler.go:130`): the role is never
  updated (`role_unchanged`), so no user becomes a host through the program and
  CreateProperty is only open to hosts written by hand or by migration 002.

## What is proved

TLAPS checks these theorems for any properties, stays, users, requests, files,
addresses, codes, reads, retries, workers and lives. The assumptions on the constants are the named ASSUMEs:
sorts of the parameters, a `None` outside them, a finite set `Files`.

`BookingProofs`. The tables, locks and replies need each other to be inductive:
`TablesAgree` survives a COMMIT only if the key was open (`Transactions`), the
key stays open because one transaction at a time has it, `ConfirmedDaysTaken`
survives it only if every date the UPDATE passed over was taken and every other
date is in `todo` or `wrote`, and a stay has all its dates in the calendar
because the HAVING clause counted them (`Bookable`, lemma `InsertableDays`: a
subset of an interval with as many members as the interval is the interval).
`IInv` is the conjunction of these parts; `booking_safety` checks it with TLC.
`InitInv` and `StepInv` prove it inductive, one lemma for each group of actions.
From it follow `TypeCorrect`, `TablesConsistent`, `DaysTaken`,
`SingleConfirmation`, `AnswersTrue`, and, with a look at each step,
`ConfirmationsLast` (`NeverUndone`) and `Refines` (`ImplementsReservation`): an
snapshot that accepts is `Reserve`, an INSERT that fails after it `Withdraw`, a
commit is `Confirm` of the key, and all else stutters.
The commit maps to `Confirm` because the rows written are exactly the dates of
the stay that are still free. `HoldExcludes` proves `HoldIsLock` for `PromptSpec`: a
lock among requests that spell a stay alike. `HoldsHaveReasons` proves
`HoldsAreMeant` for `Spec`, without that restriction. Both are inductive given
`IInv`.

How far Booking is from `NoDoubleBooking`. `OverlapIsIntervals` is the usual
comparison of check-ins and check-outs, proved equal to sharing a date.
`DoubleBookingsVisible` (`CalendarTells`): every date of a confirmed stay has an
owner (`ConfirmedDaysTaken`), and an owner that is another booking is a confirmed
one that meets it there (`TablesAgree`). `SnapshotsClear` (`SnapshotsAreClear`)
rests on `InsertableDays`: all dates of a stay that is accepted are free, those of
a confirmed one are not. `OnlyShortCommitsDoubleBook` looks at each step: only a COMMIT
confirms, and one that wrote all the dates of its stay took them from nobody
(`FullCommit`), since a row is only written while no confirmed booking has it.
`CountingSuffices` concludes that behaviours of `Spec` without short commits
never double book; its hypothesis is met by every behaviour in which each UPDATE
finds all its rows free, and a program that counts has no others. `WaitsEnd`
(`SomebodyCanGo`): whoever waits for a key or a row, there is an open transaction
that can go on or is in a deadlock. It is what `EveryRequestAnswered`
needs of the locks, without fairness.

`AccountsProofs`. `IInv` adds to the properties what a request has before
each call (`Prepared`) and what is true of stored codes and flags (`Stored`): a
stored code was mailed to its address by a request that makes no more calls,
nobody has taken it, and a flag is only set for an address whose code came back.
`Remembered`
says that what a request or a session knows of a user is not above the table: the
row is there, and a remembered host is a host. It is kept because rows stay and
roles only rise (`RowsStay`); UpdateRole writes no session, since the flag it
needs has the name of an id and flags only have names of addresses. Theorems
`Inductive`, `TypeCorrect`, `CodesUsedOnce`, `UsersUnique`, `SessionsProved` (that
the evidence was there for the address of the session, not that its client gave
it), `ListedByHosts`, and `Refines` (`ImplementsIdentity`): an INSERT is `Register`
(`InsertRegisters`), the SET of a session `SignIn` (`SessionSignsIn`), a code that
is taken or a token of Google `Vouch`, an expiry `SignOut`, and all else stutters.
The mapping needs more of `Prepared` than the invariants do: a request still at
work has no session yet, or one of them would be opened twice. UpdateRole has
steps that would be two of Identity's at once; `NoRoleUpdated` shows that it takes
none. `UsersForGood` reads off `Identity` that ids and addresses of users stay and
roles only rise.

`ListingProofs`. `IInv` bounds, by how far an uploader is, where its object,
result and status can be (`Progress`, `ImageProgress`). Theorems `ImagesTrue`,
`SendersFree` (the results in the buffer are of other images, so there is room),
`NothingLeft`, `TypeCorrect` and `Refines`: the transaction is `List`, a
finished upload `Store`, a status update `Activate` or `Reject`, and every other
step a stutter (`SilentSteps`). `ImagesForGood` reads off `Catalogue` that no
listing and no object is taken away, and that a decided status stays.

`BrowseProofs`. An answer cannot be inductive as it was given, since the tables
it came from are gone. `IInv` says instead how to tell it from the tables of
today: a row was taken then if and only if its owner is among the bookings
confirmed then (`TakenThen`), because an owner never changes (`Known`,
`SearchedThen`, `CalendarThen`). `HiddenForGood`, `FoundWasFree`, `ReadsAgree`
and `CalendarsAge` follow from that without a look at the steps;
`PicturesLast` is a part of it, and rests on images being decided once.

`ProcessProofs`. `IInv` has three parts: what is open at each call of main
(`Opened`), where handlers may be (`Handlers`), and a count for each task
(`Attempts`): mails sent, strays, and the mail still to come (`ToCome`) are at
most one plus retries plus returns. Every step of Delivery moves one of these to
another, or pays with a retry or a return; `Undisturbed` is the lemma that such a
step disturbs nothing else. Theorems `PoolsLast`, `Equipped`, `NobodyForgotten`,
`TasksEndRight`, `RepeatsPaid`, `TypeCorrect`, for the unrestricted `Next` of
Process, so the restriction of `MCProcess` does not matter to them. `Refines`
(`ImplementsOutbox`): the commit is `Confirm`, the enqueue `Owe`, a mail `Mail`,
which `Attempts` shows to be within the budget (`MailDraws`), a retry or a
return `Repeat`, the end of a task `Settle`
(`FailureRepeatsOrSettles`); boots, shutdowns, deaths and moves between asynq's
lists are stutters (`Silent`, `Requeued`). `DebtsForGood` reads off `Outbox` that
confirmations and tasks are not lost, over any number of lives, and that a task
that is done or archived is not run again.

`WaitsEnd`, `UsersForGood`, `ImagesForGood`, `DebtsForGood` and
`CountingSuffices` are about formulas that no run lists: what the first four say
is weaker than an invariant or a refinement that a run checks, and the last is
about a program that the code is not.

Only model-checked: the liveness properties (`EveryRequestAnswered`, `TaskEnds`, `ShutdownEnds`, `TasksSettle`), since liveness under fairness is out of the
prover's reach, and of course the violations.

## What is not modelled

- Prices, names, addresses and other data no property is about; the wording of
  errors and replies (`errs/`, `lib/utils`, `middleware/err.go`); request
  validation beyond what decides whether a call is made (`validation/`); clocks
  (expiry may happen at any time); a Redis that loses keys early; isolation
  anomalies inside a single SQL statement other than the row-by-row UPDATE and the
  snapshot of the INSERT. Two
  processes at once differ from one in nothing `Booking`, `Accounts` and
  `Listing` see, since requests share no memory; `Process` has one process.
- The order of lists and calendars, and the grouping of a calendar by month: the
  code ranges over a Go map and the SELECT has no ORDER BY, so no order is
  promised.
- The pairing of an image with its bytes; UpdateProperty, DeleteProperty and
  DeleteFile, which nothing calls. UpdateRole of the user repository never reads
  the error of its rows, but is not reached either (`role_unchanged`).
- Uploads at shutdown, but for their hold on the pool: main does not wait for
  them, and what their death leaves behind is `Crash` of `Listing`.
- Templates: `SendEmail` reads `templates/emails` from the working directory,
  which the image built by the `Dockerfile` does not copy. The model lets every
  send fail, and so covers a deployment in which all of them do.
- Configuration is read in one step that succeeds or ends the process; what it
  says is not modelled.
- Build and deployment.

## Plan

Done: `Calendar`, `Reservation`, `Booking`, `Accounts`, `Identity`, `Listing`,
`Catalogue`, `Browse`, `Delivery`, `Outbox`, `Process`, their runs and proofs;
every property of a passing run that is not liveness has its theorem. Left:

1. The uploads of `Listing` as a whole under the life cycle of `Process`, which
   has their UPDATEs only.
2. UpdateProperty and DeleteProperty, once something calls them: they would take
   rows away, on which `PicturesLast`, `HiddenForGood` and `HostsList` rest.
