---------------------------- MODULE ProcessProofs ----------------------------
(***************************************************************************)
(* Proofs about Process, for any number of requests, retries, workers and  *)
(* lives.                                                                  *)
(***************************************************************************)
EXTENDS Process, TLAPS

\* The first state satisfies the inductive invariant.
LEMMA InitInv == Init => IInv
<1> SUFFICES ASSUME Init PROVE IInv
  OBVIOUS
<1> USE DEF Init, DeliveryInit
<1>1. TypeOK
  BY DEF TypeOK, DeliveryTypeOK, MainStates, TaskStates, JobStates
<1>2. Opened
  BY DEF Opened
<1>3. InFlight = {}
  BY DEF InFlight, Serving
<1>4. Handlers /\ PoolsOutliveCalls /\ OrderlyStopForgetsNobody
  BY <1>3 DEF Handlers, PoolsOutliveCalls, OrderlyStopForgetsNobody, Serving
<1>5. Attempts
  BY MaxRetryAssumption DEF Attempts, ToCome
<1>6. SettledRight
  BY DEF SettledRight
<1>7. QED
  BY <1>1, <1>2, <1>4, <1>5, <1>6 DEF IInv

\* What IInv says of the deliveries.
Post == Attempts /\ SettledRight

\* main's calls up to the signal, and the signal.
LEMMA StartSteps ==
  ASSUME IInv, Boot \/ Starting \/ Signal
  PROVE  IInv'
<1> USE DEF IInv
<1>1. UNCHANGED <<requests, deliveries>>
  BY DEF Boot, Starting, Signal, LoadConfig, OpenDatabase, OpenRedis,
         NewNotificationService, InitHandlers, SetUserRepo, StartWorkers, Serve
<1>2. DeliveryTypeOK' /\ Attempts' /\ SettledRight'
  <2>1. DeliveryTypeOK'
    BY <1>1 DEF TypeOK, DeliveryTypeOK, deliveries
  <2>2. SettledRight'
    BY <1>1 DEF SettledRight, requests, deliveries
  <2>3. \A t \in Requests : job[t] # "none" =>
          main' \in {"service", "serving", "draining", "close_db", "wait_db",
                    "close_redis", "stop"}
    BY DEF Attempts, Boot, Starting, Signal, LoadConfig, OpenDatabase, OpenRedis,
           NewNotificationService, InitHandlers, SetUserRepo, StartWorkers, Serve
  <2>4. Attempts'
    BY <1>1, <2>3 DEF Attempts, ToCome, deliveries
  <2>5. QED
    BY <2>1, <2>2, <2>4
<1>3. CASE Boot
  BY <1>1, <1>2, <1>3
     DEF Boot, requests, deliveries, TypeOK, MainStates, Opened, Handlers,
         InFlight, PoolsOutliveCalls, OrderlyStopForgetsNobody
<1>4. CASE LoadConfig
  BY <1>1, <1>2, <1>4
     DEF LoadConfig, requests, deliveries, TypeOK, MainStates, Opened, Handlers,
         InFlight, PoolsOutliveCalls, OrderlyStopForgetsNobody
<1>5. CASE OpenDatabase
  BY <1>1, <1>2, <1>5
     DEF OpenDatabase, requests, deliveries, TypeOK, MainStates, Opened, Handlers,
         InFlight, PoolsOutliveCalls, OrderlyStopForgetsNobody
<1>6. CASE OpenRedis
  BY <1>1, <1>2, <1>6
     DEF OpenRedis, requests, deliveries, TypeOK, MainStates, Opened, Handlers,
         InFlight, PoolsOutliveCalls, OrderlyStopForgetsNobody
<1>7. CASE NewNotificationService
  BY <1>1, <1>2, <1>7
     DEF NewNotificationService, requests, deliveries, TypeOK, MainStates, Opened, Handlers,
         InFlight, PoolsOutliveCalls, OrderlyStopForgetsNobody
<1>8. CASE InitHandlers
  BY <1>1, <1>2, <1>8
     DEF InitHandlers, requests, deliveries, TypeOK, MainStates, Opened, Handlers,
         InFlight, PoolsOutliveCalls, OrderlyStopForgetsNobody
<1>9. CASE SetUserRepo
  BY <1>1, <1>2, <1>9
     DEF SetUserRepo, requests, deliveries, TypeOK, MainStates, Opened, Handlers,
         InFlight, PoolsOutliveCalls, OrderlyStopForgetsNobody
<1>10. CASE StartWorkers
  BY <1>1, <1>2, <1>10
     DEF StartWorkers, requests, deliveries, TypeOK, MainStates, Opened, Handlers,
         InFlight, PoolsOutliveCalls, OrderlyStopForgetsNobody
<1>11. CASE Serve
  BY <1>1, <1>2, <1>11
     DEF Serve, requests, deliveries, TypeOK, MainStates, Opened, Handlers,
         InFlight, PoolsOutliveCalls, OrderlyStopForgetsNobody
<1>12. CASE Signal
  BY <1>1, <1>2, <1>12
     DEF Signal, requests, deliveries, TypeOK, MainStates, Opened, Handlers,
         InFlight, PoolsOutliveCalls, OrderlyStopForgetsNobody
<1>13. QED
  BY <1>3, <1>4, <1>5, <1>6, <1>7, <1>8, <1>9, <1>10, <1>11, <1>12 DEF Starting

\* main's calls from the signal on.
LEMMA StopSteps ==
  ASSUME IInv,
         Shutdown \/ ShutdownErrs \/ CloseDatabase \/ DatabaseClosed \/ CloseRedis
           \/ StopWorkers \/ CloseClient
  PROVE  IInv'
<1> USE DEF IInv, requests, deliveries
<1>1. TypeOK'
  BY DEF Shutdown, ShutdownErrs, CloseDatabase, DatabaseClosed, CloseRedis,
         StopWorkers, CloseClient, TypeOK, DeliveryTypeOK, MainStates, InFlight
<1>2. Opened'
  BY DEF Shutdown, ShutdownErrs, CloseDatabase, DatabaseClosed, CloseRedis,
         StopWorkers, CloseClient, TypeOK, Opened
<1>3. Handlers'
  BY DEF Shutdown, ShutdownErrs, CloseDatabase, DatabaseClosed, CloseRedis,
         StopWorkers, CloseClient, TypeOK, Opened, Handlers, InFlight
<1>4. PoolsOutliveCalls'
  BY DEF Shutdown, ShutdownErrs, CloseDatabase, DatabaseClosed, CloseRedis,
         StopWorkers, CloseClient, TypeOK, Opened, Handlers, InFlight,
         PoolsOutliveCalls
<1>5. OrderlyStopForgetsNobody'
  BY DEF Shutdown, ShutdownErrs, CloseDatabase, DatabaseClosed, CloseRedis,
         StopWorkers, CloseClient, OrderlyStopForgetsNobody
<1>6. Attempts'
  BY DEF Shutdown, ShutdownErrs, CloseDatabase, DatabaseClosed, CloseRedis,
         StopWorkers, CloseClient, Attempts, ToCome, Busy
<1>7. SettledRight'
  BY DEF Shutdown, ShutdownErrs, CloseDatabase, DatabaseClosed, CloseRedis,
         StopWorkers, CloseClient, SettledRight
<1>8. QED
  BY <1>1, <1>2, <1>3, <1>4, <1>5, <1>6, <1>7

\* A process that ends takes its handlers and workers with it; the handlers it
\* cuts off met a dying process, or were late.
LEMMA EndSteps == ASSUME IInv, Die \/ Exit PROVE IInv'
<1> USE DEF IInv
<1>1. /\ Gone
      /\ faulted' \in {faulted, faulted \cup InFlight}
      /\ \A r \in InFlight : r \in faulted' \/ r \in late
  BY DEF Die, Exit, Handlers, Gone
<1> USE DEF Gone, WorkersDie, redis_queue
<1>2. TypeOK'
  BY <1>1 DEF TypeOK, DeliveryTypeOK, MainStates, JobStates, Serving, InFlight
<1>3. Opened'
  BY <1>1 DEF Opened
<1>4. InFlight' = {}
  BY <1>1 DEF InFlight, Serving
<1>5. \A r \in Requests : handler[r] \notin Serving => handler'[r] = handler[r]
  BY <1>1 DEF InFlight, TypeOK
<1>6. \A r \in Requests : handler[r] \in Serving => handler'[r] = "gone"
  BY <1>1 DEF InFlight, TypeOK
<1>7. Handlers'
  BY <1>1, <1>4, <1>5, <1>6 DEF Handlers, Serving
<1>8. PoolsOutliveCalls'
  BY <1>1, <1>4 DEF PoolsOutliveCalls
<1>9. OrderlyStopForgetsNobody'
  BY <1>1, <1>5, <1>6 DEF OrderlyStopForgetsNobody, InFlight, Serving, TypeOK
<1>10. Attempts'
  BY <1>1 DEF Attempts, ToCome, TypeOK, DeliveryTypeOK
<1>11. SettledRight'
  BY <1>1 DEF SettledRight
<1>12. QED
  BY <1>2, <1>3, <1>7, <1>8, <1>9, <1>10, <1>11

\* The handlers.
LEMMA HandlerSteps ==
  ASSUME IInv, NEW r \in Requests, Arrives(r) \/ Handle(r)
  PROVE  IInv'
<1> USE DEF IInv, process
<1>1. CASE Arrives(r) \/ RequireAuth(r)
  <2> USE <1>1 DEF Arrives, RequireAuth, Goes, deliveries
  <2>1. TypeOK'
    BY DEF TypeOK, DeliveryTypeOK, Serving
  <2>2. Opened' /\ SettledRight' /\ Attempts'
    BY DEF Opened, SettledRight, Attempts, ToCome
  <2>3. Handlers'
    BY DEF Handlers, InFlight, Serving, TypeOK, Opened
  <2>4. PoolsOutliveCalls'
    BY DEF PoolsOutliveCalls, InFlight, Serving, TypeOK, Opened
  <2>5. OrderlyStopForgetsNobody'
    BY DEF OrderlyStopForgetsNobody, TypeOK
  <2>6. QED
    BY <2>1, <2>2, <2>3, <2>4, <2>5
<1>2. CASE ConfirmBooking(r) \/ ConfirmErrs(r)
  <2> USE <1>2 DEF ConfirmBooking, ConfirmErrs, Goes, deliveries
  <2>1. TypeOK'
    BY DEF TypeOK, DeliveryTypeOK, Serving
  <2>2. r \notin confirmed /\ task[r] = "absent" /\ handler[r] \in Serving
    BY DEF Handlers, Serving, SettledRight
  <2>3. Opened' /\ SettledRight' /\ Attempts'
    BY DEF Opened, SettledRight, Attempts, ToCome
  <2>4. Handlers'
    BY <2>2 DEF Handlers, InFlight, Serving, TypeOK
  <2>5. PoolsOutliveCalls'
    BY <2>2 DEF PoolsOutliveCalls, InFlight, Serving, TypeOK
  <2>6. OrderlyStopForgetsNobody'
    BY <2>2 DEF OrderlyStopForgetsNobody, TypeOK
  <2>7. QED
    BY <2>1, <2>3, <2>4, <2>5, <2>6
<1>3. CASE Enqueue(r) \/ EnqueueErrs(r) \/ EnqueueClosed(r)
  <2>1. /\ handler[r] = "enqueue" /\ handler' = [handler EXCEPT ![r] = "answered"]
        /\ \/ task' = [task EXCEPT ![r] = "pending"]
           \/ task' = task /\ r \in faulted' \cup late
        /\ faulted' \in {faulted, faulted \cup {r}}
        /\ UNCHANGED <<process, confirmed, late, updating, retried, job, stray, mails,
                      returned>>
    BY <1>3 DEF Enqueue, EnqueueErrs, EnqueueClosed, Goes, Enqueued, Queue, deliveries,
                Handlers, Opened, InFlight, Serving, TypeOK, MainStates
  <2>2. task[r] = "absent" /\ r \in confirmed /\ mails[r] = 0 /\ stray[r] = 0
        /\ job[r] = "none"
    BY <2>1 DEF Handlers, Attempts
  <2>3. TypeOK'
    BY <2>1 DEF TypeOK, DeliveryTypeOK, Serving, TaskStates
  <2>4. Opened'
    BY <2>1 DEF Opened
  <2>5. SettledRight'
    BY <2>1, <2>2 DEF SettledRight, TypeOK, DeliveryTypeOK
  <2>6. Attempts'
    BY <2>1, <2>2 DEF Attempts, ToCome, TypeOK, DeliveryTypeOK
  <2>7. Handlers'
    BY <2>1, <2>2 DEF Handlers, InFlight, Serving, TypeOK, DeliveryTypeOK
  <2>8. PoolsOutliveCalls'
    BY <2>1 DEF PoolsOutliveCalls, InFlight, Serving, TypeOK
  <2>9. OrderlyStopForgetsNobody'
    BY <2>1, <2>2 DEF OrderlyStopForgetsNobody, TypeOK, DeliveryTypeOK
  <2>10. QED
    BY <2>3, <2>4, <2>5, <2>6, <2>7, <2>8, <2>9
<1>4. QED
  BY <1>1, <1>2, <1>3 DEF Handle

\* A collector's UPDATE begins on an open pool, and disturbs nothing else.
LEMMA CollectorSteps ==
  ASSUME IInv, NEW l \in Listings, UpdateImageStatus(l) \/ UpdateReturns(l)
  PROVE  IInv'
<1> USE DEF IInv, UpdateImageStatus, UpdateReturns, process, deliveries
<1>1. UNCHANGED <<process, handler, confirmed, faulted, late, deliveries>>
  OBVIOUS
<1>2. TypeOK'
  BY DEF TypeOK, DeliveryTypeOK
<1>3. Opened' /\ Attempts' /\ SettledRight' /\ OrderlyStopForgetsNobody'
  BY <1>1 DEF Opened, Attempts, ToCome, SettledRight, OrderlyStopForgetsNobody
<1>4. Handlers'
  BY <1>1 DEF Handlers, InFlight
<1>5. updating' # {} => updating # {} \/ db = "open"
  OBVIOUS
<1>6. PoolsOutliveCalls'
  BY <1>1, <1>5 DEF PoolsOutliveCalls, InFlight
<1>7. QED
  BY <1>2, <1>3, <1>4, <1>6

\* A delivery step that keeps Post and the queued tasks queued disturbs nothing
\* that IInv says of main and of the handlers.
LEMMA Undisturbed ==
  ASSUME IInv, UNCHANGED <<process, requests>>, DeliveryTypeOK', Post',
         \A t \in Requests : task'[t] = "absent" <=> task[t] = "absent",
         \A t \in Requests : job'[t] = "lookup" => job[t] = "lookup" \/ db = "open"
  PROVE  IInv'
BY DEF IInv, TypeOK, Post, Opened, Handlers, InFlight, PoolsOutliveCalls,
       OrderlyStopForgetsNobody, process, requests

\* A failed attempt leaves its task to be retried, or archived if there is no
\* retry left.
LEMMA FailedAttempt ==
  ASSUME DeliveryTypeOK, SettledRight, NEW t \in Requests, task[t] = "active",
         retried[t] <= MaxRetry, RetryOrArchive(t), UNCHANGED <<mails, confirmed>>
  PROVE  SettledRight'
<1> USE MaxRetryAssumption DEF Queue, DeliveryTypeOK
<1>1. CASE retried[t] < MaxRetry
  BY <1>1 DEF RetryOrArchive, SettledRight
<1>2. CASE ~(retried[t] < MaxRetry)
  <2>1. retried[t] = MaxRetry /\ task' = [task EXCEPT ![t] = "archived"]
        /\ retried' = retried
    BY <1>2 DEF RetryOrArchive
  <2>2. QED
    BY <2>1 DEF SettledRight
<1>3. QED
  BY <1>1, <1>2

\* The workers, their strays, and asynq.
LEMMA WorkerSteps ==
  ASSUME IInv, NEW t \in Requests,
         \/ Take(t) \/ Forward(t) \/ Rescue(t) \/ GetUserEmail(t) \/ Work(t)
         \/ Report(t) \/ Expire(t) \/ Requeue(t)
  PROVE  IInv'
<1> USE MaxRetryAssumption DEF Queue, Continue
<1>1. TypeOK /\ DeliveryTypeOK /\ Attempts /\ SettledRight /\ Opened
  BY DEF IInv, TypeOK
<1>2. CASE Take(t)
  <2>1. workers /\ Dequeue(t) /\ UNCHANGED <<process, requests>>
    BY <1>2 DEF Take
  <2>2. DeliveryTypeOK'
    BY <1>1, <2>1 DEF Dequeue, DeliveryTypeOK, TaskStates, JobStates
  <2>3. Post'
    BY <1>1, <2>1 DEF Dequeue, DeliveryTypeOK, Post, Attempts, ToCome, SettledRight,
                      Opened, process, requests
  <2>4. QED
    BY <1>1, <2>1, <2>2, <2>3, Undisturbed DEF Dequeue, DeliveryTypeOK
<1>3. CASE Forward(t)
  <2>1. RetryDue(t) /\ UNCHANGED <<process, requests>>
    BY <1>3 DEF Forward
  <2>2. DeliveryTypeOK'
    BY <1>1, <2>1 DEF RetryDue, DeliveryTypeOK, TaskStates
  <2>3. Post'
    BY <1>1, <2>1 DEF RetryDue, DeliveryTypeOK, Post, Attempts, ToCome, SettledRight,
                      process, requests
  <2>4. QED
    BY <1>1, <2>1, <2>2, <2>3, Undisturbed DEF RetryDue, DeliveryTypeOK
<1>4. CASE Rescue(t)
  <2>1. Recover(t) /\ UNCHANGED <<process, requests>>
    BY <1>4 DEF Rescue
  <2>2. DeliveryTypeOK'
    BY <1>1, <2>1 DEF Recover, RetryOrArchive, DeliveryTypeOK, TaskStates
  <2>3. Post'
    <3>1. SettledRight'
      BY <1>1, <2>1, FailedAttempt DEF Recover, Attempts, requests
    <3>2. Attempts'
      BY <1>1, <2>1 DEF Recover, RetryOrArchive, DeliveryTypeOK, Attempts, ToCome,
                        process
    <3>3. QED
      BY <3>1, <3>2 DEF Post
  <2>4. QED
    BY <1>1, <2>1, <2>2, <2>3, Undisturbed DEF Recover, RetryOrArchive, DeliveryTypeOK
<1>5. CASE GetUserEmail(t)
  <2>1. /\ (db = "open" /\ Lookup(t)) \/ Resolve(t)
        /\ UNCHANGED <<process, requests>>
    BY <1>5 DEF GetUserEmail
  <2>2. DeliveryTypeOK'
    BY <1>1, <2>1 DEF Lookup, Resolve, redis_queue, DeliveryTypeOK, JobStates
  <2>3. Post'
    BY <1>1, <2>1 DEF Lookup, Resolve, redis_queue, DeliveryTypeOK, Post, Attempts,
                      ToCome, SettledRight, process, requests
  <2>4. QED
    BY <1>1, <2>1, <2>2, <2>3, Undisturbed DEF Lookup, Resolve, redis_queue, DeliveryTypeOK
<1>6. CASE Work(t)
  <2>1. /\ LookupErrs(t) \/ SendConfirmationEmail(t) \/ SendErrs(t) \/ StrayEnds(t)
        /\ UNCHANGED <<process, requests>>
    BY <1>6 DEF Work
  <2> USE DEF LookupErrs, SendConfirmationEmail, SendErrs, StrayEnds, redis_queue
  <2>2. DeliveryTypeOK'
    BY <1>1, <2>1 DEF DeliveryTypeOK, JobStates
  <2>3. Post'
    BY <1>1, <2>1 DEF DeliveryTypeOK, Post, Attempts, ToCome, SettledRight, process,
                      requests
  <2>4. QED
    BY <1>1, <2>1, <2>2, <2>3, Undisturbed DEF DeliveryTypeOK
<1>7. CASE Report(t)
  <2>1. /\ Finish(t) \/ Fail(t)
        /\ UNCHANGED <<process, requests>>
    BY <1>7 DEF Report
  <2>2. DeliveryTypeOK'
    BY <1>1, <2>1 DEF Finish, Fail, RetryOrArchive, DeliveryTypeOK, TaskStates, JobStates
  <2>3. Attempts'
    <3>1. CASE Finish(t)
      BY <1>1, <2>1, <3>1 DEF Finish, DeliveryTypeOK, Attempts, ToCome, process
    <3>2. CASE Fail(t)
      BY <1>1, <2>1, <3>2 DEF Fail, RetryOrArchive, DeliveryTypeOK, Attempts, ToCome,
                              process
    <3>3. QED
      BY <2>1, <3>1, <3>2
  <2>4. SettledRight'
    <3>1. CASE Finish(t)
      BY <1>1, <2>1, <3>1 DEF Finish, DeliveryTypeOK, Attempts, SettledRight, requests
    <3>2. CASE Fail(t)
      BY <1>1, <2>1, <3>2, FailedAttempt DEF Fail, Attempts, requests
    <3>3. QED
      BY <2>1, <3>1, <3>2
  <2>5. Post'
    BY <2>3, <2>4 DEF Post
  <2>6. CASE Finish(t)
    BY <1>1, <2>1, <2>2, <2>5, <2>6, Undisturbed DEF Finish, DeliveryTypeOK, Attempts
  <2>7. CASE Fail(t)
    <3>1. /\ task[t] # "absent"
          /\ job' = [job EXCEPT ![t] = "none"]
          /\ task' \in {[task EXCEPT ![t] = "retry"], [task EXCEPT ![t] = "archived"]}
      BY <1>1, <2>7 DEF Fail, RetryOrArchive, Attempts
    <3>2. QED
      BY <1>1, <2>1, <2>2, <2>5, <3>1, Undisturbed DEF DeliveryTypeOK
  <2>8. QED
    BY <2>1, <2>6, <2>7
<1>8. CASE Expire(t)
  <2>1. TimeOut(t) /\ UNCHANGED <<process, requests>>
    BY <1>8 DEF Expire
  <2>2. DeliveryTypeOK'
    BY <1>1, <2>1 DEF TimeOut, Abandon, RetryOrArchive, DeliveryTypeOK, TaskStates,
                      JobStates
  <2>3. Attempts'
    BY <1>1, <2>1 DEF TimeOut, Abandon, RetryOrArchive, DeliveryTypeOK, Attempts, ToCome,
                      process
  <2>4. SettledRight'
    BY <1>1, <2>1, FailedAttempt DEF TimeOut, Abandon, Attempts, requests
  <2>5. Post'
    BY <2>3, <2>4 DEF Post
  <2>6. QED
    BY <1>1, <2>1, <2>2, <2>5, Undisturbed
       DEF TimeOut, Abandon, RetryOrArchive, DeliveryTypeOK, Attempts
<1>9. CASE Requeue(t)
  <2>1. Abort(t) /\ UNCHANGED <<process, requests>>
    BY <1>9 DEF Requeue
  <2>2. DeliveryTypeOK'
    BY <1>1, <2>1 DEF Abort, Abandon, DeliveryTypeOK, TaskStates, JobStates
  <2>3. Post'
    BY <1>1, <2>1 DEF Abort, Abandon, DeliveryTypeOK, Post, Attempts, ToCome,
                      SettledRight, process, requests
  <2>4. QED
    BY <1>1, <2>1, <2>2, <2>3, Undisturbed DEF Abort, Abandon, DeliveryTypeOK, Attempts
<1>10. QED
  BY <1>2, <1>3, <1>4, <1>5, <1>6, <1>7, <1>8, <1>9

\* Every step keeps the inductive invariant.
LEMMA StepInv == IInv /\ [Next]_vars => IInv'
<1> SUFFICES ASSUME IInv, [Next]_vars PROVE IInv'
  OBVIOUS
<1>1. CASE UNCHANGED vars
  BY <1>1 DEF vars, process, requests, deliveries, IInv, TypeOK, DeliveryTypeOK, Opened,
              Handlers, InFlight, Attempts, ToCome, PoolsOutliveCalls,
              OrderlyStopForgetsNobody, SettledRight
<1>2. QED
  BY <1>1, StartSteps, StopSteps, EndSteps, HandlerSteps, WorkerSteps, CollectorSteps
     DEF Next, Stopping

-----------------------------------------------------------------------------
(* Theorems *)

\* At each call of main it is known what is open, who is at work, and how many
\* mails each task may still cost.
THEOREM Inductive == Spec => []IInv
BY InitInv, StepInv, PTL DEF Spec

\* Type correctness: no count of mails, retries or strays goes below zero.
THEOREM TypeCorrect == Spec => []TypeOK
<1>1. IInv => TypeOK
  BY DEF IInv
<1>2. QED
  BY <1>1, Inductive, PTL

\* No handler, no worker's lookup and no UPDATE of an image is ever under way on
\* a closed pool: DB.Close waits for them, which is why it may not return.
THEOREM PoolsLast == Spec => []PoolsOutliveCalls
<1>1. IInv => PoolsOutliveCalls
  BY DEF IInv
<1>2. QED
  BY <1>1, Inductive, PTL

\* The workers start with all they need, in every life.
THEOREM Equipped == Spec => []WorkersEquipped
<1>1. IInv => WorkersEquipped
  BY DEF IInv, Attempts, Opened, WorkersEquipped, Busy
<1>2. QED
  BY <1>1, Inductive, PTL

\* An orderly shutdown forgets no confirmed guest.
THEOREM NobodyForgotten == Spec => []OrderlyStopForgetsNobody
<1>1. IInv => OrderlyStopForgetsNobody
  BY DEF IInv
<1>2. QED
  BY <1>1, Inductive, PTL

\* Tasks end as they should, whatever cuts across their attempts.
THEOREM TasksEndRight == Spec => []SettledRight
<1>1. IInv => SettledRight
  BY DEF IInv
<1>2. QED
  BY <1>1, Inductive, PTL

\* Each repeated mail is paid for by a retry or by a returned task.
THEOREM RepeatsPaid == Spec => []RepeatsAccounted
<1>1. ASSUME IInv, NEW t \in Requests PROVE mails[t] <= 1 + retried[t] + returned[t]
  BY <1>1 DEF IInv, TypeOK, DeliveryTypeOK, Attempts, ToCome
<1>2. IInv => RepeatsAccounted
  BY <1>1 DEF RepeatsAccounted
<1>3. QED
  BY <1>2, Inductive, PTL
-----------------------------------------------------------------------------
(* Refinement *)

\* What is not written to the queue, the mails or the confirmations is nothing
\* to Outbox.
LEMMA Silent ==
  UNCHANGED <<confirmed, task, retried, mails, returned>> => UNCHANGED O!vars
BY DEF O!vars, Fate

\* A task moves between the queues of asynq: its mail is owed as before.
LEMMA Requeued ==
  ASSUME IInv, NEW t \in Requests, NEW where \in {"pending", "active", "retry"},
         task[t] \in {"pending", "active", "retry"}, Queue(t, where)
  PROVE  [x \in Requests |-> Fate(x)'] = [x \in Requests |-> Fate(x)]
<1>1. ASSUME NEW x \in Requests PROVE Fate(x)' = Fate(x)
  <2>1. CASE x = t
    BY <2>1 DEF Queue, Fate, IInv, TypeOK, DeliveryTypeOK
  <2>2. CASE x # t
    BY <2>2 DEF Queue, Fate, IInv, TypeOK, DeliveryTypeOK
  <2>3. QED
    BY <2>1, <2>2
<1>2. QED
  BY <1>1

\* A task leaves the queue or enters it: only the fate of its mail changes.
LEMMA FateChanges ==
  ASSUME IInv, NEW t \in Requests, NEW where \in TaskStates, Queue(t, where)
  PROVE  [x \in Requests |-> Fate(x)'] =
           [[x \in Requests |-> Fate(x)] EXCEPT ![t] = Fate(t)']
<1>1. ASSUME NEW x \in Requests, x # t PROVE Fate(x)' = Fate(x)
  BY <1>1 DEF Queue, Fate, IInv, TypeOK, DeliveryTypeOK
<1>2. QED
  BY <1>1

\* A retry, or a return, counted for one task raises its budget and no other.
LEMMA BudgetRaised ==
  ASSUME IInv, NEW t \in Requests,
         \/ retried' = [retried EXCEPT ![t] = @ + 1] /\ UNCHANGED returned
         \/ returned' = [returned EXCEPT ![t] = @ + 1] /\ UNCHANGED retried
  PROVE  [x \in Requests |-> 1 + retried'[x] + returned'[x]] =
           [[x \in Requests |-> 1 + retried[x] + returned[x]] EXCEPT ![t] = @ + 1]
<1>1. ASSUME NEW x \in Requests
      PROVE  1 + retried'[x] + returned'[x] =
               IF x = t THEN 1 + retried[x] + returned[x] + 1
                        ELSE 1 + retried[x] + returned[x]
  <2>1. retried[x] \in Nat /\ returned[x] \in Nat
    BY DEF IInv, TypeOK, DeliveryTypeOK
  <2>2. CASE retried' = [retried EXCEPT ![t] = @ + 1] /\ UNCHANGED returned
    BY <2>1, <2>2 DEF IInv, TypeOK, DeliveryTypeOK
  <2>3. CASE returned' = [returned EXCEPT ![t] = @ + 1] /\ UNCHANGED retried
    BY <2>1, <2>3 DEF IInv, TypeOK, DeliveryTypeOK
  <2>4. QED
    BY <2>2, <2>3
<1>2. QED
  BY <1>1

\* A failure that asynq notices, however it does, is a Repeat, or the retries
\* are used up and it settles the debt.
LEMMA FailureRepeatsOrSettles ==
  ASSUME IInv, NEW t \in Requests, task[t] = "active", RetryOrArchive(t),
         UNCHANGED <<confirmed, mails, returned>>
  PROVE  O!Next
<1> USE DEF IInv, TypeOK, DeliveryTypeOK
<1>1. CASE retried[t] < MaxRetry
  <2>1. Queue(t, "retry") /\ retried' = [retried EXCEPT ![t] = @ + 1]
    BY <1>1 DEF RetryOrArchive
  <2>2. [x \in Requests |-> Fate(x)'] = [x \in Requests |-> Fate(x)]
    BY <2>1, Requeued
  <2>3. [x \in Requests |-> 1 + retried'[x] + returned'[x]] =
          [[x \in Requests |-> 1 + retried[x] + returned[x]] EXCEPT ![t] = @ + 1]
    BY <2>1, BudgetRaised
  <2>4. Fate(t) = "owed"
    BY DEF Fate
  <2>5. O!Repeat(t)
    BY <2>2, <2>3, <2>4 DEF O!Repeat
  <2>6. QED
    BY <2>5 DEF O!Next
<1>2. CASE ~(retried[t] < MaxRetry)
  <2>1. Queue(t, "archived") /\ UNCHANGED retried
    BY <1>2 DEF RetryOrArchive
  <2>2. Fate(t) = "owed" /\ Fate(t)' = "given_up"
    BY <2>1 DEF Queue, Fate
  <2>3. [x \in Requests |-> Fate(x)'] =
          [[x \in Requests |-> Fate(x)] EXCEPT ![t] = "given_up"]
    BY <2>1, <2>2, FateChanges DEF TaskStates
  <2>4. 1 + retried[t] + returned[t] > MaxRetry
    BY <1>2, MaxRetryAssumption
  <2>5. O!Settle(t, "given_up")
    BY <2>1, <2>2, <2>3, <2>4 DEF O!Settle
  <2>6. QED
    BY <2>5 DEF O!Next
<1>3. QED
  BY <1>1, <1>2

\* A mail that leaves a worker, or a goroutine that nobody waits for, is within
\* the budget.
LEMMA MailDraws ==
  ASSUME IInv, NEW t \in Requests, job[t] = "send" \/ stray[t] > 0,
         mails' = [mails EXCEPT ![t] = @ + 1],
         UNCHANGED <<confirmed, task, retried, returned>>
  PROVE  O!Next
<1> USE DEF IInv, TypeOK, DeliveryTypeOK
<1>1. mails[t] < 1 + retried[t] + returned[t]
  BY DEF Attempts, ToCome
<1>2. task[t] # "absent"
  <2>1. CASE job[t] = "send"
    BY <2>1 DEF Attempts
  <2>2. CASE stray[t] > 0
    BY <2>2 DEF Attempts
  <2>3. QED
    BY <2>1, <2>2
<1>3. Fate(t) # "none"
  BY <1>2 DEF Fate, TaskStates
<1>4. [x \in Requests |-> Fate(x)'] = [x \in Requests |-> Fate(x)]
  BY DEF Fate
<1>5. O!Mail(t)
  BY <1>1, <1>3, <1>4 DEF O!Mail
<1>6. QED
  BY <1>5 DEF O!Next

\* A confirmation is committed once, and its task enqueued once and after it.
LEMMA HandlersOwe ==
  ASSUME IInv, NEW r \in Requests, Arrives(r) \/ Handle(r)
  PROVE  UNCHANGED O!vars \/ O!Next
<1> USE DEF deliveries, IInv, TypeOK, DeliveryTypeOK
<1>1. CASE Arrives(r) \/ RequireAuth(r) \/ EnqueueClosed(r)
  BY <1>1, Silent DEF Arrives, RequireAuth, EnqueueClosed
<1>2. CASE ConfirmBooking(r) \/ ConfirmErrs(r)
  <2>1. UNCHANGED deliveries /\ confirmed' \in {confirmed, confirmed \cup {r}}
    BY <1>2 DEF ConfirmBooking, ConfirmErrs
  <2>2. r \notin confirmed
    BY <1>2 DEF ConfirmBooking, ConfirmErrs, Handlers
  <2>3. CASE confirmed' = confirmed
    BY <2>1, <2>3, Silent
  <2>4. CASE confirmed' = confirmed \cup {r}
    <3>1. O!Confirm(r)
      BY <2>1, <2>2, <2>4 DEF O!Confirm, Fate
    <3>2. QED
      BY <3>1 DEF O!Next
  <2>5. QED
    BY <2>1, <2>3, <2>4
<1>3. CASE Enqueue(r) \/ EnqueueErrs(r)
  <2>1. /\ Enqueued(r) \/ UNCHANGED deliveries
        /\ UNCHANGED confirmed
        /\ r \in confirmed /\ task[r] = "absent"
    BY <1>3 DEF Enqueue, EnqueueErrs, Handlers
  <2>2. CASE UNCHANGED deliveries
    BY <2>1, <2>2, Silent
  <2>3. CASE Enqueued(r)
    <3>1. Fate(r) = "none" /\ Fate(r)' = "owed"
      BY <2>1, <2>3 DEF Enqueued, Queue, Fate
    <3>2. [x \in Requests |-> Fate(x)'] =
            [[x \in Requests |-> Fate(x)] EXCEPT ![r] = "owed"]
      BY <2>3, <3>1, FateChanges DEF Enqueued, TaskStates
    <3>3. O!Owe(r)
      BY <2>1, <2>3, <3>1, <3>2 DEF O!Owe, Enqueued
    <3>4. QED
      BY <3>3 DEF O!Next
  <2>4. QED
    BY <2>1, <2>2, <2>3
<1>4. QED
  BY <1>1, <1>2, <1>3 DEF Handle

\* Workers and asynq's timers mail, repeat and settle.
LEMMA WorkersSettle ==
  ASSUME IInv, NEW t \in Requests,
         \/ Take(t) \/ Forward(t) \/ Rescue(t) \/ GetUserEmail(t) \/ Work(t)
         \/ Report(t) \/ Expire(t) \/ Requeue(t)
  PROVE  UNCHANGED O!vars \/ O!Next
<1> USE DEF requests, redis_queue, IInv, TypeOK, DeliveryTypeOK
<1>1. UNCHANGED confirmed
  BY DEF Take, Forward, Rescue, GetUserEmail, Work, Report, Expire, Requeue
<1>2. CASE Take(t) \/ Forward(t)
  <2>1. [x \in Requests |-> Fate(x)'] = [x \in Requests |-> Fate(x)]
    BY <1>2, Requeued DEF Take, Forward, Dequeue, RetryDue
  <2>2. UNCHANGED <<retried, mails, returned>>
    BY <1>2 DEF Take, Forward, Dequeue, RetryDue
  <2>3. QED
    BY <1>1, <2>1, <2>2 DEF O!vars
<1>3. CASE GetUserEmail(t) \/ LookupErrs(t)
  BY <1>1, <1>3, Silent DEF GetUserEmail, Lookup, Resolve, LookupErrs
<1>4. CASE SendConfirmationEmail(t) \/ SendErrs(t) \/ StrayEnds(t)
  <2>1. /\ job[t] = "send" \/ stray[t] > 0
        /\ mails' \in {mails, [mails EXCEPT ![t] = @ + 1]}
        /\ UNCHANGED <<task, retried, returned>>
    BY <1>4 DEF SendConfirmationEmail, SendErrs, StrayEnds
  <2>2. QED
    BY <1>1, <2>1, Silent, MailDraws
<1>5. CASE Finish(t)
  <2>1. /\ job[t] = "sent" /\ task[t] = "active" /\ mails[t] > 0
        /\ Queue(t, "done")
        /\ UNCHANGED <<retried, mails, returned>>
    BY <1>5 DEF Finish, Attempts
  <2>2. Fate(t) = "owed" /\ Fate(t)' = "done"
    BY <2>1 DEF Queue, Fate
  <2>3. [x \in Requests |-> Fate(x)'] =
          [[x \in Requests |-> Fate(x)] EXCEPT ![t] = "done"]
    BY <2>1, <2>2, FateChanges DEF TaskStates
  <2>4. O!Settle(t, "done")
    BY <1>1, <2>1, <2>2, <2>3 DEF O!Settle
  <2>5. QED
    BY <2>4 DEF O!Next
<1>6. CASE Fail(t) \/ TimeOut(t) \/ Recover(t)
  <2>1. /\ task[t] = "active" /\ RetryOrArchive(t)
        /\ UNCHANGED <<mails, returned>>
    BY <1>6 DEF Fail, TimeOut, Abandon, Recover, Attempts
  <2>2. QED
    BY <1>1, <2>1, FailureRepeatsOrSettles
<1>7. CASE Abort(t)
  <2>1. /\ task[t] = "active" /\ UNCHANGED <<retried, mails>>
        /\ \/ /\ Queue(t, "pending")
              /\ returned' = [returned EXCEPT ![t] = @ + 1]
           \/ UNCHANGED <<task, returned>>
    BY <1>7 DEF Abort, Abandon, Attempts
  <2>2. CASE UNCHANGED <<task, returned>>
    BY <1>1, <2>1, <2>2, Silent
  <2>3. CASE Queue(t, "pending") /\ returned' = [returned EXCEPT ![t] = @ + 1]
    <3>1. [x \in Requests |-> Fate(x)'] = [x \in Requests |-> Fate(x)]
      BY <2>1, <2>3, Requeued
    <3>2. [x \in Requests |-> 1 + retried'[x] + returned'[x]] =
            [[x \in Requests |-> 1 + retried[x] + returned[x]] EXCEPT ![t] = @ + 1]
      BY <2>1, <2>3, BudgetRaised
    <3>3. Fate(t) = "owed"
      BY <2>1 DEF Fate
    <3>4. O!Repeat(t)
      BY <1>1, <2>1, <3>1, <3>2, <3>3 DEF O!Repeat
    <3>5. QED
      BY <3>4 DEF O!Next
  <2>4. QED
    BY <2>1, <2>2, <2>3
<1>8. QED
  BY <1>2, <1>3, <1>4, <1>5, <1>6, <1>7
     DEF Rescue, Work, Report, Expire, Requeue

\* The process, its workers and the queue implement Outbox: starts, shutdowns,
\* kills and every call that does not commit, mail or settle are stutters.
THEOREM Refines == Spec => ImplementsOutbox
<1>1. Init => O!Init
  BY DEF Init, DeliveryInit, O!Init, Fate
<1>2. ASSUME IInv, [Next]_vars PROVE [O!Next]_(O!vars)
  <2>1. CASE Boot \/ Starting \/ Signal
    BY <2>1, Silent DEF Boot, Starting, Signal, LoadConfig, OpenDatabase, OpenRedis,
       NewNotificationService, InitHandlers, SetUserRepo, StartWorkers, Serve,
       requests, deliveries
  <2>2. CASE Stopping \/ Die
    BY <2>2, Silent DEF Stopping, Shutdown, ShutdownErrs, CloseDatabase,
       DatabaseClosed, CloseRedis, StopWorkers, CloseClient, Exit, Die, Gone,
       WorkersDie, redis_queue, requests, deliveries
  <2>3. ASSUME NEW r \in Requests, Arrives(r) \/ Handle(r) PROVE [O!Next]_(O!vars)
    BY <1>2, <2>3, HandlersOwe
  <2>4. ASSUME NEW t \in Requests,
               \/ Take(t) \/ Forward(t) \/ Rescue(t) \/ GetUserEmail(t) \/ Work(t)
               \/ Report(t) \/ Expire(t) \/ Requeue(t)
        PROVE  [O!Next]_(O!vars)
    BY <1>2, <2>4, WorkersSettle
  <2>5. ASSUME NEW l \in Listings, UpdateImageStatus(l) \/ UpdateReturns(l)
        PROVE  UNCHANGED O!vars
    BY <2>5, Silent DEF UpdateImageStatus, UpdateReturns, deliveries
  <2>6. CASE UNCHANGED vars
    BY <2>6, Silent DEF vars, requests, deliveries
  <2>7. QED
    BY <1>2, <2>1, <2>2, <2>3, <2>4, <2>5, <2>6 DEF Next
<1>3. QED
  BY <1>1, <1>2, Inductive, PTL DEF Spec, O!Spec, ImplementsOutbox

\* What Outbox promises of each step is true of asynq's queue: a confirmation
\* stays, a task once enqueued is not lost from it, whatever dies, and one that
\* is done or archived is never run again.
DebtsLast ==
  /\ confirmed \subseteq confirmed'
  /\ \A t \in Requests :
       /\ task[t] # "absent" => task'[t] # "absent"
       /\ task[t] \in {"done", "archived"} => task'[t] = task[t]

\* Debts are kept and settled once, over any number of lives.
THEOREM DebtsForGood == Spec => [][DebtsLast]_vars
<1>1. ASSUME IInv, IInv', [O!Next]_(O!vars) PROVE [DebtsLast]_vars
  <2> DEFINE fate == [x \in Requests |-> Fate(x)]
  <2>1. \A t \in Requests :
          /\ fate[t] = Fate(t) /\ fate'[t] = Fate(t)'
          /\ task[t] \in TaskStates /\ task'[t] \in TaskStates
    BY <1>1 DEF IInv, TypeOK, DeliveryTypeOK
  <2>2. /\ confirmed \subseteq confirmed'
        /\ \A t \in Requests :
             /\ fate[t] # "none" => fate'[t] # "none"
             /\ fate[t] \in {"done", "given_up"} => fate'[t] = fate[t]
    <3>1. CASE UNCHANGED O!vars
      BY <3>1 DEF O!vars
    <3>2. ASSUME NEW r \in Requests,
                 O!Confirm(r) \/ O!Repeat(r) \/ O!Mail(r)
          PROVE  confirmed \subseteq confirmed' /\ fate' = fate
      BY <3>2 DEF O!Confirm, O!Repeat, O!Mail
    <3>3. ASSUME NEW r \in Requests, NEW how \in {"owed", "done", "given_up"},
                 fate[r] \in {"none", "owed"},
                 fate' = [fate EXCEPT ![r] = how]
          PROVE  \A t \in Requests :
                   /\ fate[t] # "none" => fate'[t] # "none"
                   /\ fate[t] \in {"done", "given_up"} => fate'[t] = fate[t]
      BY <3>3
    <3>4. ASSUME NEW r \in Requests, O!Owe(r)
          PROVE  confirmed' = confirmed /\ fate[r] = "none"
                 /\ fate' = [fate EXCEPT ![r] = "owed"]
      BY <3>4 DEF O!Owe
    <3>5. ASSUME NEW r \in Requests, NEW how \in {"done", "given_up"},
                 O!Settle(r, how)
          PROVE  confirmed' = confirmed /\ fate[r] = "owed"
                 /\ fate' = [fate EXCEPT ![r] = how]
      BY <3>5 DEF O!Settle
    <3> HIDE DEF fate
    <3>6. QED
      BY <1>1, <3>1, <3>2, <3>3, <3>4, <3>5 DEF O!Next
  <2> HIDE DEF fate
  <2>3. QED
    BY <2>1, <2>2 DEF DebtsLast, Fate, TaskStates
<1>2. QED
  BY <1>1, Inductive, Refines, PTL DEF ImplementsOutbox, O!Spec
=============================================================================
