------------------------------- MODULE Listing -------------------------------
(***************************************************************************)
(* PropertyService.CreateProperty and the goroutines it leaves behind.     *)
(*                                                                         *)
(* One transaction inserts the property, its address, its calendar (the    *)
(* trigger) and one row per image, with status 'uploading'.  After the     *)
(* commit a background task uploads the images to the bucket, one          *)
(* goroutine each; their results go through a channel to a collector that  *)
(* writes the status of each image; another goroutine closes the channel   *)
(* when the WaitGroup is down to zero.  Nobody waits for the task, and it  *)
(* is not resumed by another process.                                      *)
(*                                                                         *)
(* A property is named by the request that created it.                     *)
(***************************************************************************)
EXTENDS Integers, FiniteSets

CONSTANTS
  Requests, \* create requests, each served once
  Files,    \* names for the files of a request
  MaxFiles, \* most files of one request: 4 in the code
  None

ASSUME FilesAssumption == IsFiniteSet(Files)
ASSUME MaxFilesAssumption == MaxFiles \in Nat
ASSUME NoneAssumption == None \notin Files

VARIABLES
  listed,    \* properties whose rows are committed
  status,    \* status[r][f]: property_images.status, "none" without a row
  bucket,    \* bucket[r]: files of r that are objects of the bucket
  pc,        \* where the handler of r is, or its reply
  files,     \* the files of the request
  task,      \* where processImageUploads of r is
  uploader,  \* uploader[r][f]: where the goroutine of an image is
  good,      \* files of r whose upload returned no error
  channel,   \* results sent and not received
  closed,    \* whether the channel is closed
  result     \* the result the collector is writing, or None

vars == <<listed, status, bucket, pc, files, task, uploader, good,
          channel, closed, result>>

tables == <<listed, status>>
goroutines == <<task, uploader, good, channel, closed, result>>

TaskStates == {"none", "spawn", "collect", "update", "done", "dead"}
UploaderStates == {"none", "upload", "send", "done"}
Statuses == {"none", "uploading", "active", "failed"}

TypeOK ==
  /\ listed \subseteq Requests
  /\ status \in [Requests -> [Files -> Statuses]]
  /\ bucket \in [Requests -> SUBSET Files]
  /\ pc \in [Requests -> {"idle", "check", "tx", "go", "created",
                          "refused", "failed", "crashed"}]
  /\ files \in [Requests -> SUBSET Files]
  /\ task \in [Requests -> TaskStates]
  /\ uploader \in [Requests -> [Files -> UploaderStates]]
  /\ good \in [Requests -> SUBSET Files]
  /\ channel \in [Requests -> SUBSET Files]
  /\ closed \in [Requests -> BOOLEAN]
  /\ result \in [Requests -> Files \cup {None}]

Init ==
  /\ listed = {}
  /\ status = [r \in Requests |-> [f \in Files |-> "none"]]
  /\ bucket = [r \in Requests |-> {}]
  /\ pc = [r \in Requests |-> "idle"]
  /\ files = [r \in Requests |-> {}]
  /\ task = [r \in Requests |-> "none"]
  /\ uploader = [r \in Requests |-> [f \in Files |-> "none"]]
  /\ good = [r \in Requests |-> {}]
  /\ channel = [r \in Requests |-> {}]
  /\ closed = [r \in Requests |-> FALSE]
  /\ result = [r \in Requests |-> None]

Goto(r, where) == pc' = [pc EXCEPT ![r] = where]

-----------------------------------------------------------------------------
(* CreateProperty *)

Arrives(r, fs) ==
  /\ pc[r] = "idle"
  /\ files' = [files EXCEPT ![r] = fs]
  /\ Goto(r, "check")
  /\ UNCHANGED <<tables, bucket, goroutines>>

\* Mutant: how many files there are is not asked.
CheckAnyNumber(r) ==
  /\ pc[r] = "check"
  /\ Goto(r, "tx") \/ Goto(r, "refused")
  /\ UNCHANGED <<tables, bucket, files, goroutines>>

\* The number of files, their types and sizes.
CheckFiles(r) ==
  /\ pc[r] = "check"
  /\ \/ Cardinality(files[r]) <= MaxFiles /\ Goto(r, "tx")
     \/ Goto(r, "refused")
  /\ UNCHANGED <<tables, bucket, files, goroutines>>

\* Mutant: the images are 'active' from the start.
InsertActiveListing(r) ==
  /\ listed' = listed \cup {r}
  /\ status' = [status EXCEPT ![r] =
                  [f \in Files |-> IF f \in files[r] THEN "active" ELSE "none"]]

\* The whole transaction: its rows are nobody else's business before COMMIT.
InsertListing(r) ==
  /\ listed' = listed \cup {r}
  /\ status' = [status EXCEPT ![r] =
                  [f \in Files |-> IF f \in files[r] THEN "uploading" ELSE "none"]]

Commit(r) ==
  /\ pc[r] = "tx"
  /\ InsertListing(r)
  /\ Goto(r, "go")
  /\ UNCHANGED <<bucket, files, goroutines>>

\* COMMIT took effect and its answer was lost: nothing is uploaded.
CommitErrs(r) ==
  /\ pc[r] = "tx"
  /\ InsertListing(r)
  /\ Goto(r, "failed")
  /\ UNCHANGED <<bucket, files, goroutines>>

\* A statement, the reading of a file or COMMIT fails: rollback.
TxFails(r) ==
  /\ pc[r] = "tx"
  /\ Goto(r, "failed")
  /\ UNCHANGED <<tables, bucket, files, goroutines>>

\* go processImageUploads(detachedCtx, ...), and the reply.
GoUpload(r) ==
  /\ pc[r] = "go"
  /\ task' = [task EXCEPT ![r] = "spawn"]
  /\ Goto(r, "created")
  /\ UNCHANGED <<tables, bucket, files, uploader, good, channel, closed, result>>

-----------------------------------------------------------------------------
(* processImageUploads *)

\* wg.Add(1) and go func(img, fileData), for the next image.
StartUploader(r, f) ==
  /\ task[r] = "spawn"
  /\ f \in files[r]
  /\ uploader[r][f] = "none"
  /\ uploader' = [uploader EXCEPT ![r][f] = "upload"]
  /\ UNCHANGED <<tables, bucket, pc, files, task, good, channel, closed, result>>

\* The loop is over: the closer is started and the collector begins.
StartCollector(r) ==
  /\ task[r] = "spawn"
  /\ \A f \in files[r] : uploader[r][f] # "none"
  /\ task' = [task EXCEPT ![r] = "collect"]
  /\ UNCHANGED <<tables, bucket, pc, files, uploader, good, channel, closed, result>>

\* UploadFile returns without error: the object is in the bucket.
Upload(r, f) ==
  /\ task[r] # "dead"
  /\ uploader[r][f] = "upload"
  /\ bucket' = [bucket EXCEPT ![r] = @ \cup {f}]
  /\ good' = [good EXCEPT ![r] = @ \cup {f}]
  /\ uploader' = [uploader EXCEPT ![r][f] = "send"]
  /\ UNCHANGED <<tables, pc, files, task, channel, closed, result>>

\* UploadFile fails or panics, with or without the object in the bucket; the
\* deferred recover turns a panic into a result.
UploadErrs(r, f) ==
  /\ task[r] # "dead"
  /\ uploader[r][f] = "upload"
  /\ bucket' \in {bucket, [bucket EXCEPT ![r] = @ \cup {f}]}
  /\ uploader' = [uploader EXCEPT ![r][f] = "send"]
  /\ UNCHANGED <<tables, pc, files, task, good, channel, closed, result>>

\* The buffer of the channel has a place for each image.
HasRoom(r) == Cardinality(channel[r]) < Cardinality(files[r])

\* resultChan <- uploadResult{...}, then the deferred wg.Done().
Send(r, f) ==
  /\ task[r] # "dead"
  /\ uploader[r][f] = "send"
  /\ HasRoom(r)
  /\ channel' = [channel EXCEPT ![r] = @ \cup {f}]
  /\ uploader' = [uploader EXCEPT ![r][f] = "done"]
  /\ UNCHANGED <<tables, bucket, pc, files, task, good, closed, result>>

\* Mutant: nobody waits for the uploaders.
NoWait(r) == TRUE

\* The WaitGroup is at zero: every uploader that was added is done.
AllDone(r) == \A f \in Files : uploader[r][f] \in {"none", "done"}

\* Mutant: the channel is never closed.
NeverClose(r) == FALSE

\* wg.Wait() returns and the channel is closed; the goroutine that does it is
\* started after the loop.
CloseChannel(r) ==
  /\ task[r] \in {"collect", "update", "done"}
  /\ AllDone(r)
  /\ ~closed[r]
  /\ closed' = [closed EXCEPT ![r] = TRUE]
  /\ UNCHANGED <<tables, bucket, pc, files, task, uploader, good, channel, result>>

\* for result := range resultChan
Receive(r, f) ==
  /\ task[r] = "collect"
  /\ f \in channel[r]
  /\ channel' = [channel EXCEPT ![r] = @ \ {f}]
  /\ result' = [result EXCEPT ![r] = f]
  /\ task' = [task EXCEPT ![r] = "update"]
  /\ UNCHANGED <<tables, bucket, pc, files, uploader, good, closed>>

\* Mutant: the error of the upload is not looked at.
AlwaysActive(r, f) == "active"

Outcome(r, f) == IF f \in good[r] THEN "active" ELSE "failed"

\* UPDATE property_images SET status, for the result at hand.
UpdateImageStatus(r) ==
  /\ task[r] = "update"
  /\ status' = [status EXCEPT ![r][result[r]] = Outcome(r, result[r])]
  /\ result' = [result EXCEPT ![r] = None]
  /\ task' = [task EXCEPT ![r] = "collect"]
  /\ UNCHANGED <<listed, bucket, pc, files, uploader, good, channel, closed>>

\* The UPDATE fails: it is logged and the collector goes on.
UpdateImageStatusErrs(r) ==
  /\ task[r] = "update"
  /\ result' = [result EXCEPT ![r] = None]
  /\ task' = [task EXCEPT ![r] = "collect"]
  /\ UNCHANGED <<tables, bucket, pc, files, uploader, good, channel, closed>>

\* Mutant: the collector leaves when the channel is empty, closed or not.
FinishWhenEmpty(r) ==
  /\ task[r] = "collect"
  /\ channel[r] = {}
  /\ task' = [task EXCEPT ![r] = "done"]
  /\ UNCHANGED <<tables, bucket, pc, files, uploader, good, channel, closed, result>>

\* The channel is closed and drained.
Finish(r) ==
  /\ task[r] = "collect"
  /\ closed[r]
  /\ channel[r] = {}
  /\ task' = [task EXCEPT ![r] = "done"]
  /\ UNCHANGED <<tables, bucket, pc, files, uploader, good, channel, closed, result>>

\* The process that serves r dies, or is stopped: main waits for the handlers
\* and for the asynq workers, not for the uploads.
Crash(r) ==
  /\ \/ pc[r] \in {"check", "tx", "go"}
     \/ task[r] \in {"spawn", "collect", "update"}
  /\ pc' = [pc EXCEPT ![r] = IF @ = "created" THEN @ ELSE "crashed"]
  /\ task' = [task EXCEPT ![r] = "dead"]
  /\ UNCHANGED <<tables, bucket, files, uploader, good, channel, closed, result>>

-----------------------------------------------------------------------------

Handler(r) ==
  \/ CheckFiles(r) \/ Commit(r) \/ CommitErrs(r) \/ TxFails(r) \/ GoUpload(r)

Collector(r) ==
  \/ \E f \in Files : StartUploader(r, f) \/ Receive(r, f)
  \/ StartCollector(r) \/ UpdateImageStatus(r) \/ UpdateImageStatusErrs(r)
  \/ Finish(r)

Uploader(r, f) == Upload(r, f) \/ UploadErrs(r, f) \/ Send(r, f)

Next ==
  \E r \in Requests :
    \/ \E fs \in SUBSET Files : Arrives(r, fs)
    \/ Handler(r) \/ Collector(r) \/ CloseChannel(r) \/ Crash(r)
    \/ \E f \in Files : Uploader(r, f)

Spec == Init /\ [][Next]_vars

\* The scheduler runs every goroutine that can run, and calls return.
Fairness ==
  \A r \in Requests :
    /\ WF_vars(Handler(r))
    /\ WF_vars(Collector(r))
    /\ WF_vars(CloseChannel(r))
    /\ \A f \in Files : WF_vars(Uploader(r, f))

FairSpec == Spec /\ Fairness

-----------------------------------------------------------------------------
(* Properties *)

\* What the guests are shown is there: an image is 'active' only when its
\* object is in the bucket, and 'failed' only when its upload said so, though
\* uploads, results and updates come in any order; an object is only put in
\* the bucket for an image whose row is committed.
ImagesTellTheTruth ==
  \A r \in Requests, f \in Files :
    /\ status[r][f] = "active" => f \in bucket[r]
    /\ status[r][f] = "failed" => f \notin good[r]
    /\ f \in bucket[r] => r \in listed /\ status[r][f] # "none"

\* An uploader that has a result can send it: the channel is not closed under
\* it, which would panic, and has room, so nobody blocks on a collector that is
\* busy with the database.
SendersAreFree ==
  \A r \in Requests, f \in Files : uploader[r][f] = "send" =>
    ~closed[r] /\ HasRoom(r)

\* The collector does not leave before every uploader is through and every
\* result has been received.
NothingLeftBehind ==
  \A r \in Requests : task[r] = "done" =>
    /\ channel[r] = {}
    /\ \A f \in files[r] : uploader[r][f] = "done"

\* The background task of a property comes to its end unless the process dies:
\* its goroutines are not leaked, whichever uploads and updates fail.
TaskEnds ==
  \A r \in Requests : task[r] = "spawn" ~> task[r] \in {"done", "dead"}

\* The abstract view: the tables and the bucket, without handlers, goroutines
\* and failures.
Catalogue ==
  INSTANCE Catalogue WITH
    Listings <- Requests,
    Galleries <- {fs \in SUBSET Files : Cardinality(fs) <= MaxFiles}

\* Whatever the goroutines of an upload do, what they leave in the tables and
\* in the bucket is a catalogue: a listing appears at once and never larger
\* than allowed, and the status of an image is written once, after its object,
\* although results wait in a channel and updates fail.
ImplementsCatalogue == Catalogue!Spec

-----------------------------------------------------------------------------
(* The inductive invariant *)

\* How far each image has come bounds where its file, its object, its result
\* and its status can be; the channel is closed after the last sender.
Progress ==
  \A r \in Requests :
    /\ task[r] \in {"spawn", "collect", "update", "done"} => pc[r] = "created"
    /\ task[r] \in {"collect", "update", "done"} =>
         \A f \in files[r] : uploader[r][f] # "none"
    /\ task[r] = "update" =>
         /\ result[r] # None /\ uploader[r][result[r]] = "done"
         /\ result[r] \notin channel[r] /\ status[r][result[r]] = "uploading"
    /\ pc[r] \in {"idle", "check", "tx", "refused"} => r \notin listed
    /\ pc[r] = "tx" => Cardinality(files[r]) <= MaxFiles
    /\ task[r] = "done" => closed[r] /\ channel[r] = {}
    /\ pc[r] \in {"go", "created"} =>
         r \in listed /\ \A f \in files[r] : status[r][f] # "none"
    /\ closed[r] => pc[r] = "created" /\ \A f \in files[r] : uploader[r][f] = "done"
    /\ good[r] \subseteq bucket[r]

ImageProgress ==
  \A r \in Requests, f \in Files :
    /\ uploader[r][f] # "none" =>
         /\ f \in files[r] /\ pc[r] = "created"
         /\ r \in listed /\ status[r][f] # "none"
    /\ f \in bucket[r] => uploader[r][f] \in {"send", "done"}
    /\ uploader[r][f] \in {"upload", "send"} => status[r][f] = "uploading"
    /\ f \in channel[r] => uploader[r][f] = "done" /\ status[r][f] = "uploading"
    /\ status[r][f] \in {"active", "failed"} => uploader[r][f] = "done"

IInv == TypeOK /\ Progress /\ ImageProgress /\ ImagesTellTheTruth
=============================================================================
