------------------------------ MODULE Delivery ------------------------------
(***************************************************************************)
(* The confirmation mails: the asynq queue in Redis and the handler that   *)
(* its workers run, NotificationService.handleBookingCompletion.           *)
(*                                                                         *)
(* asynq delivers a task at least once.  It is external; what is modelled  *)
(* of it is what the program relies on with the options it sets: a failed  *)
(* task is retried later and archived after MaxRetry retries, a task of a  *)
(* dead process comes back when its lease runs out, a handler that takes   *)
(* too long or outlives the shutdown is given up, and its goroutine goes   *)
(* on: smtp.SendMail knows of no context.                                  *)
(*                                                                         *)
(* A task is named by the confirm request that enqueued it.  The module    *)
(* has the actions; Process says when its one process can take them.       *)
(***************************************************************************)
EXTENDS Integers, FiniteSets

CONSTANTS
  Requests,   \* confirm requests
  MaxRetry,   \* retries of a task: 25 by default, the code sets none
  Concurrency \* workers, 10 in the code

ASSUME MaxRetryAssumption == MaxRetry \in Nat
ASSUME ConcurrencyAssumption == Concurrency \in Nat \ {0}

VARIABLES
  task,    \* where the task is in Redis
  retried, \* its failures that were followed by a retry
  job,     \* what the worker that runs it is doing, or "none"
  stray,   \* goroutines of the handler that asynq no longer waits for
  mails,   \* confirmation mails sent for it
  returned \* history: times it went back to the queue without a retry

deliveries == <<task, retried, job, stray, mails, returned>>
redis_queue == <<task, retried, returned>>

TaskStates == {"absent", "pending", "active", "retry", "archived", "done"}
JobStates == {"none", "start", "lookup", "send", "sent", "failed"}

DeliveryTypeOK ==
  /\ task \in [Requests -> TaskStates]
  /\ retried \in [Requests -> Nat]
  /\ job \in [Requests -> JobStates]
  /\ stray \in [Requests -> Nat]
  /\ mails \in [Requests -> Nat]
  /\ returned \in [Requests -> Nat]

DeliveryInit ==
  /\ task = [r \in Requests |-> "absent"]
  /\ retried = [r \in Requests |-> 0]
  /\ job = [r \in Requests |-> "none"]
  /\ stray = [r \in Requests |-> 0]
  /\ mails = [r \in Requests |-> 0]
  /\ returned = [r \in Requests |-> 0]

Queue(t, where) == task' = [task EXCEPT ![t] = where]
Continue(t, where) == job' = [job EXCEPT ![t] = where]

\* client.Enqueue.
Enqueued(t) ==
  /\ Queue(t, "pending")
  /\ UNCHANGED <<retried, job, stray, mails, returned>>

-----------------------------------------------------------------------------
(* handleBookingCompletion *)

Busy == {t \in Requests : job[t] # "none"}

\* A free worker takes a task.
Dequeue(t) ==
  /\ task[t] = "pending"
  /\ job[t] = "none"
  /\ Cardinality(Busy) < Concurrency
  /\ Queue(t, "active")
  /\ Continue(t, "start")
  /\ UNCHANGED <<retried, stray, mails, returned>>

\* GetUserEmail has a connection of the pool, and later its answer.
Lookup(t) ==
  /\ job[t] = "start"
  /\ Continue(t, "lookup")
  /\ UNCHANGED <<redis_queue, stray, mails>>

Resolve(t) ==
  /\ job[t] = "lookup"
  /\ Continue(t, "send")
  /\ UNCHANGED <<redis_queue, stray, mails>>

\* The repository or the mail client is nil, the pool is closed, or the query
\* fails: an error.
LookupErrs(t) ==
  /\ job[t] \in {"start", "lookup"}
  /\ Continue(t, "failed")
  /\ UNCHANGED <<redis_queue, stray, mails>>

\* Mutants: the handler sends again by itself; the error of
\* SendConfirmationEmail is not returned.
SendErrsAndAgain(t) ==
  /\ job[t] = "send"
  /\ mails' \in {mails, [mails EXCEPT ![t] = @ + 1]}
  /\ UNCHANGED <<redis_queue, stray, job>>

SendErrsSilently(t) ==
  /\ job[t] = "send"
  /\ mails' \in {mails, [mails EXCEPT ![t] = @ + 1]}
  /\ Continue(t, "sent")
  /\ UNCHANGED <<redis_queue, stray>>

SendConfirmationEmail(t) ==
  /\ job[t] = "send"
  /\ mails' = [mails EXCEPT ![t] = @ + 1]
  /\ Continue(t, "sent")
  /\ UNCHANGED <<redis_queue, stray>>

\* The template is missing, or SMTP fails before or after the mail is accepted.
SendErrs(t) ==
  /\ job[t] = "send"
  /\ mails' \in {mails, [mails EXCEPT ![t] = @ + 1]}
  /\ Continue(t, "failed")
  /\ UNCHANGED <<redis_queue, stray>>

\* The handler returned nil, or an error.
Finish(t) ==
  /\ job[t] = "sent"
  /\ Queue(t, "done")
  /\ Continue(t, "none")
  /\ UNCHANGED <<retried, stray, mails, returned>>

RetryOrArchive(t) ==
  IF retried[t] < MaxRetry
  THEN Queue(t, "retry") /\ retried' = [retried EXCEPT ![t] = @ + 1]
  ELSE Queue(t, "archived") /\ UNCHANGED retried

Fail(t) ==
  /\ job[t] = "failed"
  /\ RetryOrArchive(t)
  /\ Continue(t, "none")
  /\ UNCHANGED <<stray, mails, returned>>

-----------------------------------------------------------------------------
(* asynq *)

\* The worker turns to something else; a handler inside SendMail stays there.
Abandon(t) ==
  /\ job[t] # "none"
  /\ Continue(t, "none")
  /\ stray' = [stray EXCEPT ![t] = IF job[t] = "send" THEN @ + 1 ELSE @]

\* The half hour of the task is over: a failure like another.
TimeOut(t) ==
  /\ Abandon(t)
  /\ RetryOrArchive(t)
  /\ UNCHANGED <<mails, returned>>

\* The eight seconds of asynq's shutdown are over.  The task goes back, or
\* stays active if that fails; no retry is counted.
Abort(t) ==
  /\ Abandon(t)
  /\ \/ Queue(t, "pending") /\ returned' = [returned EXCEPT ![t] = @ + 1]
     \/ UNCHANGED <<task, returned>>
  /\ UNCHANGED <<retried, mails>>

\* A goroutine that was given up: its mail still goes out, or it does not.
StrayEnds(t) ==
  /\ stray[t] > 0
  /\ stray' = [stray EXCEPT ![t] = @ - 1]
  /\ mails' \in {mails, [mails EXCEPT ![t] = @ + 1]}
  /\ UNCHANGED <<redis_queue, job>>

RetryDue(t) ==
  /\ task[t] = "retry"
  /\ Queue(t, "pending")
  /\ UNCHANGED <<retried, job, stray, mails, returned>>

\* Mutant: nobody looks for the tasks of dead processes.
RecoverNever(t) == FALSE /\ UNCHANGED deliveries

\* The lease of a task that no worker runs is over.
Recover(t) ==
  /\ task[t] = "active"
  /\ job[t] = "none"
  /\ RetryOrArchive(t)
  /\ UNCHANGED <<job, stray, mails, returned>>

\* The process is gone, and every goroutine with it; Redis keeps the tasks.
WorkersDie ==
  /\ job' = [t \in Requests |-> "none"]
  /\ stray' = [t \in Requests |-> 0]
  /\ UNCHANGED <<redis_queue, mails>>
=============================================================================
