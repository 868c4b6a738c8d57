------------------------------- MODULE Process -------------------------------
(***************************************************************************)
(* The life of the Stayz process: what main opens and closes, in which     *)
(* order, and what the handlers of confirm requests and the mail workers   *)
(* are doing meanwhile.                                                    *)
(*                                                                         *)
(* main runs once per life.  It opens Postgres and Redis, starts the       *)
(* workers, serves, and on a signal waits up to ten seconds for the        *)
(* handlers, closes the two pools, and stops the workers; when the ten     *)
(* seconds run out it leaves the pools open and goes on.  A life can also  *)
(* end in os.Exit, a panic or a kill.  Redis and Postgres stay, so the     *)
(* queue and the confirmed bookings are there in the next life.            *)
(*                                                                         *)
(* A confirm request is RequireAuth (Redis), the transaction of            *)
(* ConfirmBooking (Postgres; Booking has its inside) and the enqueueing    *)
(* (asynq's own client).  Of the uploads of Listing, which main does not   *)
(* wait for, only what touches a pool is here: the UPDATE of an image's    *)
(* status, on a context that has no deadline and that nobody cancels.      *)
(***************************************************************************)
EXTENDS Delivery

CONSTANTS
  Lives,   \* bound on the starts of the process
  Listings \* listings whose images are uploaded in the background

ASSUME LivesAssumption == Lives \in Nat

VARIABLES
  main,      \* the call main makes next, or where it waits
  lives,     \* how often the process was started
  db,        \* the Postgres pool
  redis,     \* the Redis client of the handlers
  equipped,  \* what the notification service has been given
  workers,   \* whether asynq's server takes tasks
  client,    \* whether asynq's client can enqueue
  handler,   \* where the handler of a request is, or how it ended
  confirmed, \* requests whose confirmation is committed
  faulted,   \* history: requests that met a failing call or a dying process
  late,      \* history: requests in their handlers when the ten seconds ran out
  updating   \* listings whose collector has an UPDATE under way

process == <<main, lives, db, redis, equipped, workers, client>>
requests == <<handler, confirmed, faulted, late, updating>>
vars == <<process, requests, deliveries>>

MainStates ==
  {"off", "config", "database", "redis", "notification", "handlers", "repo",
   "workers", "service", "serving", "draining", "close_db", "wait_db",
   "close_redis", "stop", "close_client", "exit"}

Serving == {"auth", "commit", "enqueue"}

TypeOK ==
  /\ DeliveryTypeOK
  /\ main \in MainStates
  /\ lives \in Nat
  /\ db \in {"none", "open", "closing", "closed"}
  /\ redis \in {"none", "open", "closed"}
  /\ equipped \subseteq {"mailer", "repo"}
  /\ workers \in BOOLEAN
  /\ client \in BOOLEAN
  /\ handler \in [Requests -> Serving \cup {"idle", "answered", "failed", "gone"}]
  /\ confirmed \subseteq Requests
  /\ faulted \subseteq Requests
  /\ late \subseteq Requests
  /\ updating \subseteq Listings

Init ==
  /\ DeliveryInit
  /\ main = "off"
  /\ lives = 0
  /\ db = "none"
  /\ redis = "none"
  /\ equipped = {}
  /\ workers = FALSE
  /\ client = FALSE
  /\ handler = [r \in Requests |-> "idle"]
  /\ confirmed = {}
  /\ faulted = {}
  /\ late = {}
  /\ updating = {}

InFlight == {r \in Requests : handler[r] \in Serving}

-----------------------------------------------------------------------------
(* main, up to the signal *)

Boot ==
  /\ main = "off"
  /\ lives < Lives
  /\ main' = "config"
  /\ lives' = lives + 1
  /\ UNCHANGED <<db, redis, equipped, workers, client, requests, deliveries>>

LoadConfig ==
  /\ main = "config"
  /\ main' = "database"
  /\ UNCHANGED <<lives, db, redis, equipped, workers, client, requests, deliveries>>

\* database.New: the pool is opened and answers a ping.
OpenDatabase ==
  /\ main = "database"
  /\ db' = "open"
  /\ main' = "redis"
  /\ UNCHANGED <<lives, redis, equipped, workers, client, requests, deliveries>>

\* The rest of server.New: the Redis client, and a ping.
OpenRedis ==
  /\ main = "redis"
  /\ redis' = "open"
  /\ main' = "notification"
  /\ UNCHANGED <<lives, db, equipped, workers, client, requests, deliveries>>

NewNotificationService ==
  /\ main = "notification"
  /\ client' = TRUE
  /\ main' = "handlers"
  /\ UNCHANGED <<lives, db, redis, equipped, workers, requests, deliveries>>

InitHandlers ==
  /\ main = "handlers"
  /\ equipped' = equipped \cup {"mailer"}
  /\ main' = "repo"
  /\ UNCHANGED <<lives, db, redis, workers, client, requests, deliveries>>

\* Mutant: the workers are started before they have the repository.
SetUserRepoLate ==
  /\ main = "repo"
  /\ workers' = TRUE
  /\ main' = "workers"
  /\ UNCHANGED <<lives, db, redis, equipped, client, requests, deliveries>>

SetUserRepo ==
  /\ main = "repo"
  /\ equipped' = equipped \cup {"repo"}
  /\ main' = "workers"
  /\ UNCHANGED <<lives, db, redis, workers, client, requests, deliveries>>

StartWorkers ==
  /\ main = "workers"
  /\ workers' = TRUE
  /\ main' = "service"
  /\ UNCHANGED <<lives, db, redis, equipped, client, requests, deliveries>>

\* NewService, NewHandler and NewRouter; the signals are caught and the
\* listener is started, and main waits for the signal.
Serve ==
  /\ main = "service"
  /\ main' = "serving"
  /\ UNCHANGED <<lives, db, redis, equipped, workers, client, requests, deliveries>>

-----------------------------------------------------------------------------
(* The end of a life *)

\* The process is gone.  Its handlers leave no answer, its collectors no status.
Gone ==
  /\ main' = "off"
  /\ db' = "none"
  /\ redis' = "none"
  /\ equipped' = {}
  /\ workers' = FALSE
  /\ client' = FALSE
  /\ handler' = [r \in Requests |-> IF r \in InFlight THEN "gone" ELSE handler[r]]
  /\ updating' = {}
  /\ WorkersDie
  /\ UNCHANGED <<lives, confirmed, late>>

\* A kill, a panic, or one of main's calls fails before it serves: panic or
\* os.Exit, whatever the workers are doing by then.
Die ==
  /\ main # "off"
  /\ Gone
  /\ faulted' = faulted \cup InFlight

\* main returns.
Exit ==
  /\ main = "exit"
  /\ Gone
  /\ UNCHANGED faulted

-----------------------------------------------------------------------------
(* main, from the signal on *)

Signal ==
  /\ main = "serving"
  /\ main' = "draining"
  /\ UNCHANGED <<lives, db, redis, equipped, workers, client, requests, deliveries>>

\* Mutant: the handlers are not waited for.
ShutdownAtOnce ==
  /\ main = "draining"
  /\ main' = "close_db"
  /\ UNCHANGED <<lives, db, redis, equipped, workers, client, requests, deliveries>>

\* httpServer.Shutdown returns nil: no handler is active.
Shutdown ==
  /\ main = "draining"
  /\ InFlight = {}
  /\ main' = "close_db"
  /\ UNCHANGED <<lives, db, redis, equipped, workers, client, requests, deliveries>>

\* Mutants: there is no deadline; the pools are closed in spite of it.
ShutdownNever == FALSE /\ UNCHANGED vars
ShutdownErrsAndCloses ==
  /\ main = "draining"
  /\ InFlight # {}
  /\ main' = "close_db"
  /\ late' = late \cup InFlight
  /\ UNCHANGED <<lives, db, redis, equipped, workers, client,
                 handler, confirmed, faulted, updating, deliveries>>

\* The ten seconds are over: Shutdown returns before it closes the pools.
ShutdownErrs ==
  /\ main = "draining"
  /\ InFlight # {}
  /\ main' = "stop"
  /\ workers' = FALSE
  /\ late' = late \cup InFlight
  /\ UNCHANGED <<lives, db, redis, equipped, client,
                 handler, confirmed, faulted, updating, deliveries>>

\* DB.Close: no connection is given out any more, and it waits, without a
\* limit, for those that are out: a worker's with its lookup, a collector's
\* with its UPDATE.
CloseDatabase ==
  /\ main = "close_db"
  /\ db' = "closing"
  /\ main' = "wait_db"
  /\ UNCHANGED <<lives, redis, equipped, workers, client, requests, deliveries>>

DatabaseClosed ==
  /\ main = "wait_db"
  /\ \A t \in Requests : job[t] # "lookup"
  /\ updating = {}
  /\ db' = "closed"
  /\ main' = "close_redis"
  /\ UNCHANGED <<lives, redis, equipped, workers, client, requests, deliveries>>

\* RedisClient.Close; Stop begins with asynq's server, which takes no task any
\* more.
CloseRedis ==
  /\ main = "close_redis"
  /\ redis' = "closed"
  /\ workers' = FALSE
  /\ main' = "stop"
  /\ UNCHANGED <<lives, db, equipped, client, requests, deliveries>>

\* asynqServer.Shutdown returns when no worker has a task: each of them is
\* done or has been aborted.
StopWorkers ==
  /\ main = "stop"
  /\ Busy = {}
  /\ main' = "close_client"
  /\ UNCHANGED <<lives, db, redis, equipped, workers, client, requests, deliveries>>

CloseClient ==
  /\ main = "close_client"
  /\ client' = FALSE
  /\ main' = "exit"
  /\ UNCHANGED <<lives, db, redis, equipped, workers, requests, deliveries>>

-----------------------------------------------------------------------------
(* Confirm requests *)

Goes(r, where) == handler' = [handler EXCEPT ![r] = where]

\* The listener is closed once the shutdown begins.
Arrives(r) ==
  /\ main = "serving"
  /\ handler[r] = "idle"
  /\ Goes(r, "auth")
  /\ UNCHANGED <<process, confirmed, faulted, late, updating, deliveries>>

RequireAuth(r) ==
  /\ handler[r] = "auth"
  /\ redis = "open"
  /\ Goes(r, "commit")
  /\ UNCHANGED <<process, confirmed, faulted, late, updating, deliveries>>

\* Mutant: the task is enqueued before the transaction is committed.
EnqueueFirst(r) ==
  /\ handler[r] = "commit"
  /\ client
  /\ Enqueued(r)
  /\ Goes(r, "answered")
  /\ UNCHANGED <<process, confirmed, faulted, late, updating>>

\* The confirmation is committed.
ConfirmBooking(r) ==
  /\ handler[r] = "commit"
  /\ db = "open"
  /\ confirmed' = confirmed \cup {r}
  /\ Goes(r, "enqueue")
  /\ UNCHANGED <<process, faulted, late, updating, deliveries>>

\* No session, no open key, a failing call, or a COMMIT whose answer is lost.
ConfirmErrs(r) ==
  /\ handler[r] \in {"auth", "commit"}
  /\ \/ UNCHANGED confirmed
     \/ /\ handler[r] = "commit" /\ db = "open"
        /\ confirmed' = confirmed \cup {r}
  /\ faulted' = faulted \cup {r}
  /\ Goes(r, "failed")
  /\ UNCHANGED <<process, late, updating, deliveries>>

Enqueue(r) ==
  /\ handler[r] = "enqueue"
  /\ client
  /\ Enqueued(r)
  /\ Goes(r, "answered")
  /\ UNCHANGED <<process, confirmed, faulted, late, updating>>

\* Redis fails, with or without the task in it; the error is only logged.
EnqueueErrs(r) ==
  /\ handler[r] = "enqueue"
  /\ client
  /\ Enqueued(r) \/ UNCHANGED deliveries
  /\ faulted' = faulted \cup {r}
  /\ Goes(r, "answered")
  /\ UNCHANGED <<process, confirmed, late, updating>>

\* The client is closed already: the same, and nobody's fault but main's.
EnqueueClosed(r) ==
  /\ handler[r] = "enqueue"
  /\ ~client
  /\ Goes(r, "answered")
  /\ UNCHANGED <<process, confirmed, faulted, late, updating, deliveries>>

-----------------------------------------------------------------------------
(* The workers *)

\* Taking tasks, and looking after those that wait, is asynq's server's part.
Take(t) == workers /\ Dequeue(t) /\ UNCHANGED <<process, requests>>
Forward(t) == workers /\ RetryDue(t) /\ UNCHANGED <<process, requests>>
Rescue(t) == workers /\ Recover(t) /\ UNCHANGED <<process, requests>>

\* A running handler needs the repository, an open pool and the mail client.
GetUserEmail(t) ==
  /\ \/ "repo" \in equipped /\ db = "open" /\ Lookup(t)
     \/ "mailer" \in equipped /\ Resolve(t)
  /\ UNCHANGED <<process, requests>>

Work(t) ==
  /\ LookupErrs(t) \/ SendConfirmationEmail(t) \/ SendErrs(t) \/ StrayEnds(t)
  /\ UNCHANGED <<process, requests>>

Report(t) == (Finish(t) \/ Fail(t)) /\ UNCHANGED <<process, requests>>
Expire(t) == TimeOut(t) /\ UNCHANGED <<process, requests>>
Requeue(t) == main = "stop" /\ Abort(t) /\ UNCHANGED <<process, requests>>

-----------------------------------------------------------------------------
(* The collectors of the uploads *)

\* A collector runs behind the handler that started it, whatever main is doing.
\* On a closed pool its UPDATE fails at once, which changes nothing.
UpdateImageStatus(l) ==
  /\ main \in {"serving", "draining", "close_db", "stop", "close_client", "exit"}
  /\ db = "open"
  /\ l \notin updating
  /\ updating' = updating \cup {l}
  /\ UNCHANGED <<process, handler, confirmed, faulted, late, deliveries>>

\* It returns, if it does: the connection goes back to the pool.
UpdateReturns(l) ==
  /\ l \in updating
  /\ updating' = updating \ {l}
  /\ UNCHANGED <<process, handler, confirmed, faulted, late, deliveries>>

-----------------------------------------------------------------------------

Starting ==
  \/ LoadConfig \/ OpenDatabase \/ OpenRedis \/ NewNotificationService
  \/ InitHandlers \/ SetUserRepo \/ StartWorkers \/ Serve

Stopping ==
  \/ Shutdown \/ ShutdownErrs \/ CloseDatabase \/ DatabaseClosed \/ CloseRedis
  \/ StopWorkers \/ CloseClient \/ Exit

Handle(r) ==
  \/ RequireAuth(r) \/ ConfirmBooking(r) \/ ConfirmErrs(r)
  \/ Enqueue(r) \/ EnqueueErrs(r) \/ EnqueueClosed(r)

Next ==
  \/ Boot \/ Starting \/ Signal \/ Stopping \/ Die
  \/ \E r \in Requests :
       \/ Arrives(r) \/ Handle(r)
       \/ Take(r) \/ Forward(r) \/ Rescue(r) \/ GetUserEmail(r) \/ Work(r)
       \/ Report(r) \/ Expire(r) \/ Requeue(r)
  \/ \E l \in Listings : UpdateImageStatus(l) \/ UpdateReturns(l)

Spec == Init /\ [][Next]_vars

\* main goes on when it can, its deadline and asynq's timers run out, and
\* asynq's loops come round.  Nothing is asked of the handlers, of Postgres or
\* of the mail server: their calls may hang for good.
Fairness ==
  /\ WF_vars(Stopping)
  /\ \A t \in Requests :
       /\ WF_vars(Take(t)) /\ WF_vars(Forward(t)) /\ WF_vars(Rescue(t))
       /\ WF_vars(Report(t)) /\ WF_vars(Expire(t)) /\ WF_vars(Requeue(t))

FairSpec == Spec /\ Fairness

-----------------------------------------------------------------------------
(* Properties *)

\* No call is under way on a pool that is closed: main closes the two of them
\* only behind the last handler, leaves them open when the ten seconds run
\* out, and DB.Close waits for the queries of the workers and the collectors.
PoolsOutliveCalls ==
  /\ InFlight # {} => db = "open" /\ redis = "open"
  /\ \A t \in Requests : job[t] = "lookup" => db \in {"open", "closing"}
  /\ updating # {} => db \in {"open", "closing"}

\* A worker that has a task has all it needs: the handler's questions for a nil
\* repository and a nil mail client are never answered yes, in any life.
WorkersEquipped == Busy # {} => equipped = {"mailer", "repo"}

\* A confirmed guest is forgotten only through a failing call, a dying process
\* or the ten seconds: a shutdown in good order leaves the task of every
\* confirmation it let through in the queue, since asynq's client is closed
\* behind the handlers.
OrderlyStopForgetsNobody ==
  \A r \in confirmed : task[r] = "absent" =>
    handler[r] = "enqueue" \/ r \in faulted \cup late

\* How a task ends is true: only confirmed guests get mail, a task that is done
\* has had its mail sent, and one is given up after MaxRetry retries only,
\* however lives, leases and shutdowns cut across the attempts.
SettledRight ==
  \A t \in Requests :
    /\ task[t] # "absent" => t \in confirmed
    /\ mails[t] > 0 => task[t] # "absent"
    /\ task[t] = "done" => mails[t] > 0
    /\ task[t] = "archived" => retried[t] = MaxRetry

\* Delivery is at least once, not more often than it has to be: every mail but
\* one is paid for by a retry or by a shutdown that gave the task back, strays
\* included.
RepeatsAccounted ==
  \A t \in Requests : mails[t] <= 1 + retried[t] + returned[t]

\* Whatever processes, leases, deadlines and shutdowns do to the attempts, the
\* guest sees module Outbox: nothing is owed before the confirmation, a debt is
\* settled once and for good, and each mail has its reason.
Fate(t) ==
  [absent |-> "none", pending |-> "owed", active |-> "owed", retry |-> "owed",
   done |-> "done", archived |-> "given_up"][task[t]]

O == INSTANCE Outbox WITH
  fate <- [t \in Requests |-> Fate(t)],
  budget <- [t \in Requests |-> 1 + retried[t] + returned[t]]

ImplementsOutbox == O!Spec

\* A shutdown comes to its end, even if a handler, a worker's lookup and the
\* mail server hang, since their deadlines see to that; or DB.Close, which has
\* none, is left waiting for good behind the UPDATE of an image's status, which
\* has none either.  Nothing else can keep the process from ending.
StuckInClose == main = "wait_db" /\ updating # {}

ShutdownEnds == main = "draining" ~> (main = "off" \/ []StuckInClose)

\* Once a life serves for good, every task comes to rest, those that an earlier
\* life left active or that hang in SendMail included.
TasksSettle ==
  <>[](main = "serving") =>
    \A t \in Requests :
      task[t] # "absent" ~> task[t] \in {"done", "archived"}

-----------------------------------------------------------------------------
(* The inductive invariant *)

\* What is open and known at each call of main.
Opened ==
  /\ main \in {"redis", "notification", "handlers", "repo", "workers", "service",
              "serving", "draining", "close_db"} => db = "open"
  /\ main \in {"notification", "handlers", "repo", "workers", "service", "serving",
              "draining", "close_db", "wait_db", "close_redis"} => redis = "open"
  /\ main \in {"handlers", "repo", "workers", "service", "serving", "draining",
              "close_db", "wait_db", "close_redis", "stop", "close_client"} => client
  /\ main = "repo" => "mailer" \in equipped
  /\ main \in {"workers", "service", "serving", "draining", "close_db", "wait_db",
              "close_redis", "stop", "close_client", "exit"} =>
       equipped = {"mailer", "repo"}
  /\ workers => main \in {"service", "serving", "draining", "close_db", "wait_db",
                         "close_redis"}

\* Handlers run while main serves or waits for them, and after the deadline;
\* then the pools are open and the handlers are known to be late.
Handlers ==
  /\ main \notin {"serving", "draining", "stop", "close_client", "exit"} =>
       InFlight = {}
  /\ main \in {"stop", "close_client", "exit"} =>
       /\ InFlight \subseteq late
       /\ InFlight # {} => db = "open" /\ redis = "open"
  /\ \A r \in Requests :
       /\ handler[r] \in {"idle", "auth", "commit"} => r \notin confirmed
       /\ handler[r] = "enqueue" => task[r] = "absent" /\ r \in confirmed

\* Where the workers are, and the mails still to come: one for the attempt at
\* hand, one for each stray.
ToCome(t) ==
  IF task[t] \in {"absent", "pending", "retry"}
     \/ job[t] \in {"start", "lookup", "send"} THEN 1 ELSE 0

Attempts ==
  \A t \in Requests :
    /\ job[t] # "none" =>
         /\ task[t] = "active"
         /\ main \in {"service", "serving", "draining", "close_db", "wait_db",
                      "close_redis", "stop"}
    /\ job[t] = "sent" => mails[t] > 0
    /\ task[t] = "absent" => mails[t] = 0 /\ stray[t] = 0
    /\ retried[t] <= MaxRetry
    /\ mails[t] + stray[t] + ToCome(t) <= 1 + retried[t] + returned[t]

IInv ==
  /\ TypeOK /\ Opened /\ Handlers /\ Attempts
  /\ PoolsOutliveCalls /\ OrderlyStopForgetsNobody /\ SettledRight
=============================================================================
